---------------------------- MODULE Spec2Model ----------------------------
(***************************************************************************)
(* Model of InternalPurchaseTool.py: the purchase pipeline (create shopper,*)
(* JWT token, patch, card encryption, payment profile, add to cart,        *)
(* purchase), its two drivers and the interpretation of the basket         *)
(* service's double-encoded response.                                      *)
(*                                                                         *)
(* Python values are records [t, v]: t is "None" or "str", v the text.     *)
(* JSON values of a response body are records [j, v]: j is "absent" (the   *)
(* key is missing), "null", "str" or "num"; v is the text of the value.    *)
(* XML text is a sequence of tokens [k, n, l]: k is "open", "close" or     *)
(* "chr"; n the qualified tag name or the character; l the number of times *)
(* the markup is entity-escaped (l = 0 is markup, l = 1 is &lt;tag&gt;,    *)
(* l = 2 is &amp;lt;tag&amp;gt;).                                          *)
(***************************************************************************)
EXTENDS Integers, Sequences, FiniteSets, TLC

VARIABLES
    pc,                 \* position of the driver; "Done", "Aborted" (sys.exit(1))
                        \* and "Crashed" (uncaught exception) are final
    mode,               \* "auto" | "manual" | "unset"
    environment,        \* environment label used for the URLs
    shopper_id,         \* Python value
    jwt_token,          \* Python value
    card,               \* [pan, card_type, billing_country, currency]
    encrypted_pan,      \* Python value
    payment_profile_id, \* Python value
    cart_args,          \* [country_code, currency, product_id]
    config_uri,         \* seller config URI handed to perform_purchase
    order_id,           \* Python value
    invoked,            \* sequence of the stages invoked so far
    outcomes,           \* stage -> what the stage's request met ("none" before)
    response,           \* the response the last request made has met
    cart_class,         \* what add_item_to_cart's interpretation printed
    exit_status,        \* -1 while running, 0 normal end, 1 sys.exit(1) or traceback
    uncaught,           \* TRUE when the run ended by an exception nobody caught
    summary,            \* the final summary printed by the driver
    env_urls,           \* the four base addresses main builds
    prompts,            \* the prompts shown to the operator so far
    answer,             \* the operator's last answer, as typed
    uuids,              \* number of uuid.uuid4() values drawn so far
    sent,               \* the requests made so far, in order
    logged,             \* what the last stage printed about its result
    script,             \* where the answers of the services come from
    \* perf_test_dnai_model.py, measure_dnai_performance
    num_requests,       \* the argument num_requests
    max_workers,        \* the argument max_workers
    futures,            \* the futures submitted so far, in order of submission
    yielded,            \* the futures as_completed has handed to the loop, in order
    response_times,     \* the list response_times
    success_count,
    error_count,
    perf_pc,            \* where the calling thread of measure_dnai_performance is
    \* update_max.py, main
    rows,               \* what read_csv returned
    row_index,          \* the row the loop of main is at
    calls,              \* the requests made so far with what they met, in order
    update_pc           \* where main is

\* the variables of InternalPurchaseTool.py
tool_vars == <<pc, mode, environment, shopper_id, jwt_token, card, encrypted_pan,
               payment_profile_id, cart_args, config_uri, order_id, invoked,
               outcomes, response, cart_class, exit_status, uncaught, summary,
               env_urls, prompts, answer, uuids, sent, logged, script>>
\* the variables of perf_test_dnai_model.py
perf_vars == <<num_requests, max_workers, futures, yielded, response_times,
               success_count, error_count, perf_pc>>
\* the variables of update_max.py
update_vars == <<rows, row_index, calls, update_pc>>

vars == <<tool_vars, perf_vars, update_vars>>

-----------------------------------------------------------------------------
(* Bounds of the model *)

\* deepest entity-escaping of the nested document in a basket response
MaxEscape == 2
\* most whitespace-separated tokens an operator types at a multi-field prompt
MaxParts == 5
\* most calls of create_payment_profile made for one purchase attempt
MaxCalls == 3
\* largest num_requests and max_workers of measure_dnai_performance
MaxRequests == 3
MaxWorkers == 2
\* most rows of the CSV file update_max reads
MaxRows == 2

-----------------------------------------------------------------------------
(* Python values *)

PyNone == [t |-> "None", v |-> ""]
PyStr(s) == [t |-> "str", v |-> s]

\* truth value of a str | None
Truthy(x) == x.t = "str" /\ x.v # ""

\* JSON values
JAbsent == [j |-> "absent", v |-> ""]
JNull == [j |-> "null", v |-> ""]
JStr(s) == [j |-> "str", v |-> s]
JNum(s) == [j |-> "num", v |-> s]

\* dict.get(key): a missing key and a JSON null both give None
JsonGetIsNone(x) == x.j \in {"absent", "null"}

\* truth value of dict.get(key): None, "" and 0 are false
JsonTruthy(x) == ~JsonGetIsNone(x) /\ x.v # "" /\ ~(x.j = "num" /\ x.v = "0")

\* str(dict.get(key)): str(None) is the four-letter string "None"
JsonStr(x) == IF JsonGetIsNone(x) THEN PyStr("None") ELSE PyStr(x.v)

\* the strings int() accepts, among those the model uses
IntLiterals == {"0", "77", "78", "500", " 7 "}

-----------------------------------------------------------------------------
(* XML text *)

Tok(k, n, l) == [k |-> k, n |-> n, l |-> l]
Open(n, l) == Tok("open", n, l)
Close(n, l) == Tok("close", n, l)

\* the characters of a string, as text
Chars(cs) == [i \in 1..Len(cs) |-> Tok("chr", cs[i], 0)]

IsMarkup(t) == t.k \in {"open", "close"} /\ t.l = 0

SeqMin(S) == CHOOSE x \in S : \A y \in S : x <= y


\* One level of entity decoding: &lt;tag&gt; becomes <tag>, &amp;lt; becomes &lt;.
\* html.unescape decodes every entity of the string once.
html_unescape(s) ==
    [i \in 1..Len(s) |-> IF s[i].l > 0 THEN [s[i] EXCEPT !.l = @ - 1] ELSE s[i]]

\* ET.fromstring accepts s: one root element, tags nested properly, no
\* character data outside the root.  stack holds the names of the open elements.
RECURSIVE Nesting(_, _, _)
Nesting(s, i, stack) ==
    IF i > Len(s) THEN stack = <<>>
    ELSE IF IsMarkup(s[i]) /\ s[i].k = "open"
         THEN IF stack = <<>> /\ i > 1 THEN FALSE
              ELSE Nesting(s, i + 1, <<s[i].n>> \o stack)
    ELSE IF IsMarkup(s[i])
         THEN /\ stack # <<>>
              /\ Head(stack) = s[i].n
              /\ Nesting(s, i + 1, Tail(stack))
    ELSE stack # <<>> /\ Nesting(s, i + 1, stack)

WellFormed(s) == Len(s) > 0 /\ Nesting(s, 1, <<>>)

\* Element.find(".//name") on the root: the first element named name, in
\* document order, strictly below the root (position 1 is the root's own
\* start tag, which the path never matches); 0 is None.
FindDescendant(s, name) ==
    LET hits == {i \in 2..Len(s) :
                    IsMarkup(s[i]) /\ s[i].k = "open" /\ s[i].n = name}
    IN  IF hits = {} THEN 0 ELSE SeqMin(hits)

\* the character data from position i up to the next tag
RECURSIVE TextRun(_, _)
TextRun(s, i) ==
    IF i > Len(s) \/ IsMarkup(s[i]) THEN <<>>
    ELSE <<s[i]>> \o TextRun(s, i + 1)

\* Element.text of the element whose start tag is at position i: the
\* character data before its first child or its end tag, entities decoded
\* by the parser; <<>> stands for None and for "".
ElementText(s, i) == html_unescape(TextRun(s, i + 1))

\* str.lower(), on the characters the model uses
LowerChar(c) ==
    CASE c = "S" -> "s"
      [] c = "U" -> "u"
      [] c = "C" -> "c"
      [] c = "E" -> "e"
      [] c = "F" -> "f"
      [] OTHER -> c

Lower(s) ==
    [i \in 1..Len(s) |-> IF s[i].k = "chr" THEN [s[i] EXCEPT !.n = LowerChar(@)]
                         ELSE s[i]]

SuccessText == Chars(<<"s", "u", "c", "c", "e", "s", "s">>)

NsReturn == "{urn:WscgdBasketService}return"

\* What the interpretation printed: outcome is "success" ("Item added to
\* cart successfully!"), "reported" ("... operation reported '<message>'"),
\* "unparseable" ("Could not find <return> ..." or "Could not find <MESSAGE>
\* ...") or "none" (nothing was printed); error names the exception raised.
Classified(o, m) == [outcome |-> o, message |-> m, error |-> ""]
ParseFailed == [outcome |-> "none", message |-> <<>>, error |-> "ParseError"]
NotRun == [outcome |-> "none", message |-> <<>>, error |-> "not run"]

\* the second choice of the return node: root.find(".//return")
FallbackReturn(text) == FindDescendant(text, "return")

\* (variant) lines 449-451 with the two lookups exchanged
ReturnNodeUnqualifiedFirst(text) ==
    IF FallbackReturn(text) # 0 THEN FallbackReturn(text)
    ELSE FindDescendant(text, NsReturn)

\* lines 449-451: the namespace-qualified node, else the unqualified one
ReturnNode(text) ==
    IF FindDescendant(text, NsReturn) # 0 THEN FindDescendant(text, NsReturn)
    ELSE FallbackReturn(text)

\* (variant) the comparison of line 465 without .lower()
IsSuccessMessageExact(m) == m = SuccessText

\* basket_message.lower() == 'success'
IsSuccessMessage(m) == Lower(m) = SuccessText

\* (variant) the test of line 453 without its second half
HasReturnNode(text, r) == r # 0

\* the test of line 453, "return_node is not None and return_node.text"
HasReturnContent(text, r) == r # 0 /\ ElementText(text, r) # <<>>

\* (variant) lines 459-470 with the test of line 462 reduced to
\* "message_node is not None"
InterpretInnerAnyMessageNode(inner) ==
    IF ~WellFormed(inner) THEN ParseFailed
    ELSE LET m == FindDescendant(inner, "MESSAGE") IN
         IF m # 0
         THEN IF IsSuccessMessage(ElementText(inner, m))
              THEN Classified("success", ElementText(inner, m))
              ELSE Classified("reported", ElementText(inner, m))
         ELSE Classified("unparseable", <<>>)

\* lines 459-470, on the unescaped return content
InterpretInner(inner) ==
    IF ~WellFormed(inner) THEN ParseFailed
    ELSE LET m == FindDescendant(inner, "MESSAGE") IN
         IF m # 0 /\ ElementText(inner, m) # <<>>
         THEN IF IsSuccessMessage(ElementText(inner, m))
              THEN Classified("success", ElementText(inner, m))
              ELSE Classified("reported", ElementText(inner, m))
         ELSE Classified("unparseable", <<>>)

\* lines 443-472 of add_item_to_cart, on the text of a response
InterpretBasketResponse(text) ==
    IF ~WellFormed(text) THEN ParseFailed
    ELSE IF HasReturnContent(text, ReturnNode(text))
         THEN InterpretInner(html_unescape(ElementText(text, ReturnNode(text))))
         ELSE Classified("unparseable", <<>>)

-----------------------------------------------------------------------------
(* Basket response bodies.  A body is described by [shape, esc, inner, msg]: *)
(* the shape of the outer envelope, the number of times the nested document  *)
(* is entity-escaped inside the return node, the shape of the nested         *)
(* document and the characters of its message.                               *)

\* entity-escaping a text n times: markup becomes character data
EscapeTimes(s, n) ==
    [i \in 1..Len(s) |-> IF s[i].k = "chr" THEN s[i] ELSE [s[i] EXCEPT !.l = @ + n]]

Element(name, content) == <<Open(name, 0)>> \o content \o <<Close(name, 0)>>

Messages ==
    { <<"s", "u", "c", "c", "e", "s", "s">>,
      <<"S", "u", "c", "c", "e", "s", "s">>,
      <<"S", "U", "C", "C", "E", "S", "S">>,
      <<"s", "U", "c", "C", "e", "S", "s">>,
      <<"s", "u", "c", "c", "e", "s">>,
      <<"s", "u", "c", "c", "e", "s", "s", " ">>,
      <<"f", "a", "i", "l">>,
      <<>> }

InnerShapes == {"response", "deep", "msg_root", "no_msg", "malformed", "text", "empty"}

\* the nested document, before it is escaped
InnerDoc(inner, msg) ==
    CASE inner = "response" -> Element("response", Element("MESSAGE", Chars(msg)))
      [] inner = "deep" ->
            Element("response", Element("result", Element("MESSAGE", Chars(msg))))
      [] inner = "msg_root" -> Element("MESSAGE", Chars(msg))
      [] inner = "no_msg" -> Element("response", Element("STATUS", Chars(msg)))
      [] inner = "malformed" ->
            <<Open("response", 0), Open("MESSAGE", 0)>> \o Chars(msg)
                \o <<Close("response", 0)>>
      [] inner = "text" -> Chars(msg)
      [] OTHER -> <<>>

OuterShapes ==
    {"ns", "plain", "other_ns", "absent", "root", "ns_empty", "both", "unclosed", "blank"}

\* the nested document every "both" envelope carries in its unqualified node
OtherDoc ==
    EscapeTimes(Element("response", Element("MESSAGE", Chars(<<"o", "t", "h", "e", "r">>))), 1)

\* the text of the response body with return content c
Envelope(shape, c) ==
    CASE shape = "ns" -> Element("Envelope", Element("Body", Element(NsReturn, c)))
      [] shape = "plain" -> Element("Envelope", Element("Body", Element("return", c)))
      [] shape = "other_ns" ->
            Element("Envelope", Element("Body", Element("{urn:Other}return", c)))
      [] shape = "absent" -> Element("Envelope", Element("Body", <<>>))
      [] shape = "root" -> Element("return", c)
      [] shape = "ns_empty" ->
            Element("Envelope", Element(NsReturn, <<>>) \o Element("return", c))
      [] shape = "both" ->
            Element("Envelope", Element("return", OtherDoc) \o Element(NsReturn, c))
      [] shape = "unclosed" ->
            <<Open("Envelope", 0), Open("return", 0)>> \o c \o <<Close("Envelope", 0)>>
      [] OTHER -> <<>>

Body(shape, esc, inner, msg) == [shape |-> shape, esc |-> esc, inner |-> inner, msg |-> msg]
NoBody == Body("none", 0, "empty", <<>>)

EnvelopeText(d) == Envelope(d.shape, EscapeTimes(InnerDoc(d.inner, d.msg), d.esc))

\* every body the interpretation is checked on
Bodies ==
    { Body(sh, e, i, m) : sh \in OuterShapes, e \in 0..MaxEscape,
                          i \in InnerShapes, m \in Messages }

-----------------------------------------------------------------------------
(* What a request meets.  kind is                                           *)
(*   "conn", "timeout"  the request raised ConnectionError / Timeout: no    *)
(*                      response object exists;                             *)
(*   "http"             a response whose status raise_for_status rejects;   *)
(*   "badjson"          status 200, response.json() raises the json         *)
(*                      module's JSONDecodeError;                           *)
(*   "badjson_req"      the same, raised as requests' own JSONDecodeError,  *)
(*                      which is also a RequestException;                   *)
(*   "nonobject"        status 200, the JSON text is not an object;         *)
(*   "ok"               status 200 and a JSON object (any text for the      *)
(*                      basket service).                                    *)
(* primary and fallback are the JSON values of the fields the stage reads;  *)
(* env is the body of a basket response.                                    *)

Resp(kind, status, primary, fallback, env) ==
    [kind |-> kind, status |-> status, primary |-> primary,
     fallback |-> fallback, env |-> env]

NoResponse == Resp("none", 0, JAbsent, JAbsent, NoBody)
Failing(kind) ==
    Resp(kind, IF kind = "http" THEN 500 ELSE IF kind \in {"conn", "timeout"} THEN 0 ELSE 200,
         JAbsent, JAbsent, NoBody)
Json(primary, fallback) == Resp("ok", 200, primary, fallback, NoBody)
Xml(d) == Resp("ok", 200, JAbsent, JAbsent, d)

TransportKinds == {"conn", "timeout"}
JsonFailures == {Failing(k) : k \in {"conn", "timeout", "http", "badjson", "badjson_req", "nonobject"}}
PlainFailures == {Failing(k) : k \in {"conn", "timeout", "http"}}

\* the exception the try block raises on a response that is not "ok"
ErrorClass(kind) ==
    CASE kind = "conn" -> "ConnectionError"
      [] kind = "timeout" -> "Timeout"
      [] kind = "http" -> "HTTPError"
      [] kind = "badjson" -> "JSONDecodeError"
      [] kind = "badjson_req" -> "RequestsJSONDecodeError"
      [] OTHER -> "AttributeError"

\* the line handle_api_error prints for an exception of class e ("" = nothing)
handle_api_error(e) ==
    CASE e = "HTTPError" -> "HTTP error occurred"
      [] e = "ConnectionError" -> "Connection error occurred"
      [] e = "Timeout" -> "Timeout error occurred"
      [] e = "RequestsJSONDecodeError" -> "An unexpected error occurred"
      [] e = "JSONDecodeError" -> "Failed to decode JSON"
      [] OTHER -> ""

\* what a stage did: its return value, the exception that left it, what it printed
Returned(v, printed) == [ret |-> v, raised |-> "", printed |-> printed]
Raised(e) == [ret |-> PyNone, raised |-> e, printed |-> ""]

\* "except Exception as e: handle_api_error(e, op, getattr(response, 'text', ''))":
\* the arguments are evaluated first, and when the request itself raised, the
\* local name response was never bound
ExceptClause(r) ==
    IF r.kind \in TransportKinds THEN Raised("UnboundLocalError")
    ELSE Returned(PyNone, handle_api_error(ErrorClass(r.kind)))

\* (variant) line 214 without str(): an identifier that is not a string is
\* not taken
create_shopper_strings_only(r) ==
    IF r.kind # "ok" THEN ExceptClause(r)
    ELSE IF r.primary.j = "str" /\ r.primary.v # ""
         THEN Returned(PyStr(r.primary.v), "Successfully created shopper")
         ELSE Returned(PyNone, "Shopper ID not found")

create_shopper(r) ==
    IF r.kind # "ok" THEN ExceptClause(r)
    ELSE IF Truthy(JsonStr(r.primary))
         THEN Returned(JsonStr(r.primary), "Successfully created shopper")
         ELSE Returned(PyNone, "Shopper ID not found")

\* (variant) line 255 with the two fields exchanged
TokenFieldDataFirst(r) == IF JsonTruthy(r.fallback) THEN r.fallback ELSE r.primary

\* response_json.get('jwtToken') or response_json.get('data')
TokenField(r) == IF JsonTruthy(r.primary) THEN r.primary ELSE r.fallback

get_jwt_token(r) ==
    IF r.kind # "ok" THEN ExceptClause(r)
    ELSE IF JsonTruthy(TokenField(r))
         THEN Returned(PyStr(TokenField(r).v), "Successfully retrieved JWT token")
         ELSE Returned(PyNone, "JWT token not found")

\* (variant) patch_shopper without its try/except
patch_shopper_unguarded(r) ==
    IF r.kind # "ok" THEN Raised(ErrorClass(r.kind))
    ELSE Returned(PyNone, "Shopper patched successfully")

patch_shopper(r) ==
    IF r.kind # "ok" THEN ExceptClause(r)
    ELSE Returned(PyNone, "Shopper patched successfully")

encrypt_card(r) ==
    IF r.kind # "ok" THEN ExceptClause(r)
    ELSE IF JsonTruthy(r.primary)
         THEN Returned(PyStr(r.primary.v), "Card encrypted successfully")
         ELSE Returned(PyNone, "Encrypted card number not found")

create_payment_profile(r) ==
    IF r.kind # "ok" THEN ExceptClause(r)
    ELSE IF JsonTruthy(r.primary)
         THEN Returned(PyStr(r.primary.v), "Payment profile created successfully")
         ELSE Returned(PyNone, "Payment Profile ID not found")

\* the basket stage returns nothing; what it printed is its classification
add_item_to_cart(r) ==
    IF r.kind # "ok" THEN ExceptClause(r)
    ELSE Returned(PyNone, handle_api_error(InterpretBasketResponse(EnvelopeText(r.env)).error))

\* int(payment_profile_id) is evaluated while the payload is built, before the try
perform_purchase(r, profile) ==
    IF profile.v \notin IntLiterals THEN Raised("ValueError")
    ELSE IF r.kind # "ok" THEN ExceptClause(r)
    ELSE IF JsonTruthy(r.primary)
         THEN Returned(PyStr(r.primary.v), "Purchase completed successfully")
         ELSE Returned(PyNone, "Order ID not found")

-----------------------------------------------------------------------------
(* The defaults of the module and what the services and the operator may    *)
(* answer.                                                                  *)

DEFAULT_ENV_SUBDOMAIN == "test"
\* lines 79-94, the fields the model tells apart
DEFAULT_BILLING_CONTACT_INFO == [taxId |-> "26394653330", country |-> "US"]
DEFAULT_SELLER_CONFIG_URI ==
    "/v1/31430a42-6f4f-4646-9595-305f614957be/seller-configs/4e0ea080-99ab-4973-85c6-391556676f08"
DefaultCard ==
    [pan |-> "4716885367556942", card_type |-> "Visa",
     billing_country |-> "US", currency |-> "USD"]
DefaultCartArgs == [country_code |-> "US", currency |-> "USD", product_id |-> "8007"]
NoCard == [pan |-> "", card_type |-> "", billing_country |-> "", currency |-> ""]
NoCartArgs == [country_code |-> "", currency |-> "", product_id |-> ""]

Stages ==
    {"create_shopper", "get_jwt_token", "patch_shopper", "encrypt_card",
     "create_payment_profile", "add_item_to_cart", "perform_purchase"}

\* what the operator types, stripped
EnvInputs == {"", "dev", "test"}
ShopperInputs == {"", "existing-1"}
ConfigInputs == {"", "/v1/seller-configs/custom"}

\* input.split() of an answer of n words
CardWord(i) ==
    CASE i = 1 -> "4111111111111111" [] i = 2 -> "Amex" [] i = 3 -> "CA"
      [] i = 4 -> "CAD" [] OTHER -> "extra"
CardParts(n) == [i \in 1..n |-> CardWord(i)]
CartWord(i) ==
    CASE i = 1 -> "CA" [] i = 2 -> "CAD" [] i = 3 -> "9999" [] OTHER -> "extra"
CartParts(n) == [i \in 1..n |-> CartWord(i)]

ShopperResponses ==
    JsonFailures
        \cup {Json(v, JAbsent) : v \in {JStr("s1"), JNum("501"), JAbsent, JNull, JStr("")}}
TokenResponses ==
    JsonFailures \cup {Json(p, f) : p \in {JStr("tokA"), JAbsent, JNull, JStr("")},
                                    f \in {JStr("tokB"), JAbsent, JStr("")}}
PatchResponses == PlainFailures \cup {Json(JAbsent, JAbsent)}
EncryptResponses ==
    JsonFailures \cup {Json(v, JAbsent) : v \in {JStr("enc"), JAbsent, JStr("")}}
ProfileResponses ==
    JsonFailures \cup {Json(v, JAbsent) : v \in {JNum("77"), JStr("pp-1"), JNum("0"), JAbsent}}
PipelineBodies ==
    { Body("plain", 1, "response", <<"S", "u", "c", "c", "e", "s", "s">>),
      Body("ns", 1, "response", <<"f", "a", "i", "l">>),
      Body("absent", 1, "empty", <<>>),
      Body("plain", 1, "no_msg", <<"f", "a", "i", "l">>),
      Body("unclosed", 1, "response", <<"f", "a", "i", "l">>) }
CartResponses == PlainFailures \cup {Xml(d) : d \in PipelineBodies}
PurchaseResponses ==
    JsonFailures \cup {Json(v, JAbsent) : v \in {JStr("order-1"), JAbsent}}

\* what a stage's request met, kept for the whole run: the failure kind,
\* "missing" when the answer is a JSON object without the field(s) the stage
\* reads, "unusable" when the field is there and null, empty or zero, else "ok"
Met(stage, r) ==
    IF r.kind # "ok" THEN r.kind
    ELSE IF stage \in {"patch_shopper", "add_item_to_cart"} THEN "ok"
    ELSE IF stage = "get_jwt_token"
         THEN IF r.primary.j = "absent" /\ r.fallback.j = "absent" THEN "missing"
              ELSE IF JsonTruthy(r.primary) \/ JsonTruthy(r.fallback) THEN "ok"
              ELSE "unusable"
    ELSE IF r.primary.j = "absent" THEN "missing"
    ELSE IF JsonTruthy(r.primary) THEN "ok"
    ELSE "unusable"

NoSummary == [printed |-> FALSE, shopper |-> PyNone, order |-> PyNone]

-----------------------------------------------------------------------------
(* What the operator types.  An answer is the sequence of its words, with   *)
(* Space standing for whitespace before the first or after the last word.   *)

Space == " "

RECURSIVE LStrip(_)
LStrip(a) == IF a # <<>> /\ Head(a) = Space THEN LStrip(Tail(a)) ELSE a
RECURSIVE RStrip(_)
RStrip(a) ==
    IF a # <<>> /\ a[Len(a)] = Space THEN RStrip(SubSeq(a, 1, Len(a) - 1)) ELSE a

\* str.strip()
Strip(a) == RStrip(LStrip(a))
\* str.split()
Split(a) == SelectSeq(a, LAMBDA w : w # Space)
\* the text of a stripped answer to a prompt for one value
StrippedText(a) == IF Strip(a) = <<>> THEN "" ELSE Strip(a)[1]

Padded(words) == <<Space>> \o words \o <<Space>>
OneWord(t) == IF t = "" THEN <<>> ELSE <<t>>
\* each text as typed, bare and with whitespace around it
Answers(texts) == {OneWord(t) : t \in texts} \cup {Padded(OneWord(t)) : t \in texts}
CardAnswers ==
    {CardParts(n) : n \in 0..MaxParts} \cup {Padded(CardParts(n)) : n \in 0..MaxParts}
CartAnswers ==
    {CartParts(n) : n \in 0..MaxParts} \cup {Padded(CartParts(n)) : n \in 0..MaxParts}

-----------------------------------------------------------------------------
(* Addresses and requests.  An address is the sequence of its parts.        *)

SHOPPER_API_BASE_URL_TEMPLATE == <<"https://shopper.api.int.", "{env}", "-godaddy.com/v1">>
SSO_API_BASE_URL_TEMPLATE == <<"https://sso.", "{env}", "-godaddy.com/v1/api">>
PAYMENT_API_BASE_URL_TEMPLATE == <<"https://payment.api.", "{env}", "-godaddy.com/v1">>
BASKET_API_URL_TEMPLATE == <<"https://gdcomm.", "{env}", ".glbt1.gdg/WscgdBasket/WscgdBasket.dll">>
ENCRYPT_API_BASE_URL == <<"http://0.0.0.0:3001/api">>
AUDIT_CLIENT_IP == "localhost"
DEFAULT_CVV == "737"

\* (variant) the address of the default environment, whatever the label
get_api_url_default(template, env) ==
    [i \in 1..Len(template) |->
        IF template[i] = "{env}" THEN DEFAULT_ENV_SUBDOMAIN ELSE template[i]]

\* template.format(env=environment)
get_api_url(template, env) ==
    [i \in 1..Len(template) |-> IF template[i] = "{env}" THEN env ELSE template[i]]

\* lines 733-738 of main
BuildEnvUrls(env) ==
    [SHOPPER_API_BASE_URL |-> get_api_url(SHOPPER_API_BASE_URL_TEMPLATE, env),
     SSO_API_BASE_URL |-> get_api_url(SSO_API_BASE_URL_TEMPLATE, env),
     PAYMENT_API_BASE_URL |-> get_api_url(PAYMENT_API_BASE_URL_TEMPLATE, env),
     BASKET_API_URL |-> get_api_url(BASKET_API_URL_TEMPLATE, env)]

\* before main has built them
NoUrls == [k \in {} |-> <<>>]

\* the services answer as they like
Unscripted == [phase |-> "off", tape |-> <<>>, first |-> <<>>]
\* a first run whose stage results are written down, to be met again by a
\* second run
Recording == [phase |-> "record", tape |-> <<>>, first |-> <<>>]

\* a request: the stage that makes it, its address, the token of its
\* Authorization header, the uuid4 values it carries (the account handle, or
\* X-Request-Id followed by idempotentId) and the values of its payload
Request(stage, url, auth, ids, body) ==
    [stage |-> stage, url |-> url, auth |-> auth, ids |-> ids, body |-> body]

\* lines 179-207, for the account handle unique_id of lines 548-550
ShopperRequest(urls, unique_id) ==
    Request("create_shopper",
            urls.SHOPPER_API_BASE_URL \o <<"/shoppers?auditClientIp=", AUDIT_CLIENT_IP>>,
            PyNone, <<unique_id>>, <<>>)

\* lines 241-246
TokenRequest(urls, shopper) ==
    Request("get_jwt_token", urls.SSO_API_BASE_URL \o <<"/token">>,
            PyNone, <<>>, <<shopper>>)

\* (variant) lines 281-286 without the Authorization header
PatchRequestUnauthenticated(urls, shopper, token) ==
    Request("patch_shopper",
            urls.SHOPPER_API_BASE_URL
                \o <<"/shoppers/", shopper.v, "?auditClientIp=", AUDIT_CLIENT_IP>>,
            PyNone, <<>>, <<>>)

\* lines 281-286
PatchRequest(urls, shopper, token) ==
    Request("patch_shopper",
            urls.SHOPPER_API_BASE_URL
                \o <<"/shoppers/", shopper.v, "?auditClientIp=", AUDIT_CLIENT_IP>>,
            token, <<>>, <<>>)

\* lines 311-316
EncryptRequest(card_number) ==
    Request("encrypt_card", ENCRYPT_API_BASE_URL \o <<"/encrypt">>,
            PyNone, <<>>, <<PyStr(card_number)>>)

\* (variant) lines 358-379 with the card number as the operator gave it
ProfileRequestRawNumber(urls, token, number, c, id1, id2) ==
    Request("create_payment_profile", urls.PAYMENT_API_BASE_URL \o <<"/paymentprofiles">>,
            token, <<id1, id2>>, <<PyStr(c.pan), PyStr(c.card_type), PyStr(c.currency),
              PyStr(DEFAULT_BILLING_CONTACT_INFO.country)>>)

\* (variant) lines 358-379 with one uuid4 value in both headers
ProfileRequestOneId(urls, token, number, c, id1, id2) ==
    Request("create_payment_profile", urls.PAYMENT_API_BASE_URL \o <<"/paymentprofiles">>,
            token, <<id1, id1>>,
            <<number, PyStr(c.card_type), PyStr(c.currency),
              PyStr(DEFAULT_BILLING_CONTACT_INFO.country)>>)

\* (variant) lines 366-379 with the billing_country argument as the country
\* of billTo
ProfileRequestBillingCountry(urls, token, number, c, id1, id2) ==
    Request("create_payment_profile", urls.PAYMENT_API_BASE_URL \o <<"/paymentprofiles">>,
            token, <<id1, id2>>,
            <<number, PyStr(c.card_type), PyStr(c.currency), PyStr(c.billing_country)>>)

\* lines 358-379: X-Request-Id id1, idempotentId id2; the payload holds the
\* encrypted number, the card type, the currency and, as billTo, the
\* module's DEFAULT_BILLING_CONTACT_INFO (the billing_country argument is
\* not used)
ProfileRequest(urls, token, number, c, id1, id2) ==
    Request("create_payment_profile", urls.PAYMENT_API_BASE_URL \o <<"/paymentprofiles">>,
            token, <<id1, id2>>,
            <<number, PyStr(c.card_type), PyStr(c.currency),
              PyStr(DEFAULT_BILLING_CONTACT_INFO.country)>>)

\* lines 415-434
CartRequest(urls, shopper, args, id1) ==
    Request("add_item_to_cart", urls.BASKET_API_URL, PyNone, <<id1>>,
            <<shopper, PyStr(args.currency), PyStr(args.country_code),
              PyStr(args.product_id)>>)

\* lines 496-513
PurchaseRequest(urls, token, profile, cvv, uri, id1) ==
    Request("perform_purchase", urls.PAYMENT_API_BASE_URL \o <<"/purchase">>,
            token, <<id1>>, <<profile, PyStr(cvv), PyStr(uri)>>)

-----------------------------------------------------------------------------
(* The drivers *)

\* the state of the process when main starts
Fresh ==
    /\ pc = "main"
    /\ mode = "unset"
    /\ environment = ""
    /\ shopper_id = PyNone
    /\ jwt_token = PyNone
    /\ card = NoCard
    /\ encrypted_pan = PyNone
    /\ payment_profile_id = PyNone
    /\ cart_args = NoCartArgs
    /\ config_uri = ""
    /\ order_id = PyNone
    /\ invoked = <<>>
    /\ outcomes = [s \in Stages |-> "none"]
    /\ response = NoResponse
    /\ cart_class = NotRun
    /\ exit_status = -1
    /\ uncaught = FALSE
    /\ summary = NoSummary
    /\ env_urls = NoUrls
    /\ prompts = <<>>
    /\ answer = <<>>
    /\ uuids = 0
    /\ sent = <<>>
    /\ logged = ""

\* measure_dnai_performance has not been called
PerfIdle ==
    /\ num_requests = 0
    /\ max_workers = 1
    /\ futures = <<>>
    /\ yielded = <<>>
    /\ response_times = <<>>
    /\ success_count = 0
    /\ error_count = 0
    /\ perf_pc = "idle"

\* main of update_max has not been called
UpdateIdle ==
    /\ rows = <<>>
    /\ row_index = 1
    /\ calls = <<>>
    /\ update_pc = "idle"

Init == Fresh /\ script = Unscripted /\ PerfIdle /\ UpdateIdle

\* a stage is called and its request meets r
Invoke(stage, r) ==
    /\ invoked' = Append(invoked, stage)
    /\ outcomes' = [outcomes EXCEPT ![stage] = Met(stage, r)]
    /\ response' = r

\* the request a stage makes, after n values drawn from uuid.uuid4(); every
\* draw is taken to differ from every earlier one, so the k-th is named k
Send(request, n) == sent' = Append(sent, request) /\ uuids' = uuids + n

\* the services' answer r to a request: any, or the next of the tape
TakeResponse(r) ==
    CASE script.phase = "record" -> script' = [script EXCEPT !.tape = Append(@, r)]
      [] script.phase = "replay" ->
            /\ script.tape # <<>> /\ r = Head(script.tape)
            /\ script' = [script EXCEPT !.tape = Tail(@)]
      [] OTHER -> script' = script

\* the answers the operator may give: any; or, when a run of the automatic
\* driver is compared with one of the interactive driver, the empty answer
\* (the environment prompt of the interactive run is answered with the
\* default label, since an empty answer selects the automatic driver)
AnswerAllowed(prompt, raw) ==
    CASE script.phase = "record" -> Strip(raw) = <<>>
      [] script.phase = "replay" ->
            IF prompt = "environment" THEN Strip(raw) = <<DEFAULT_ENV_SUBDOMAIN>>
            ELSE Strip(raw) = <<>>
      [] OTHER -> TRUE

\* input(prompt) returns raw
Ask(prompt, raw) ==
    /\ AnswerAllowed(prompt, raw)
    /\ prompts' = Append(prompts, prompt)
    /\ answer' = raw

\* an exception nobody catches: traceback, exit status 1
Crash == pc' = "Crashed" /\ exit_status' = 1 /\ uncaught' = TRUE
\* sys.exit(1)
Exit == pc' = "Aborted" /\ exit_status' = 1 /\ uncaught' = uncaught
Goto(next) == pc' = next /\ UNCHANGED <<exit_status, uncaught>>

\* (variant) a driver that calls the stage again when it returned nothing
AfterFatalRetrying(res, next) ==
    IF res.raised # "" THEN Crash
    ELSE IF ~Truthy(res.ret) THEN Goto(pc)
    ELSE Goto(next)

\* "x = stage(...); if not x: sys.exit(1)"
AfterFatal(res, next) ==
    IF res.raised # "" THEN Crash
    ELSE IF ~Truthy(res.ret) THEN Exit
    ELSE Goto(next)

\* a stage whose result the driver does not test
AfterNonFatal(res, next) == IF res.raised # "" THEN Crash ELSE Goto(next)

\* (variant) line 728 taking the default label for no answer
auto_mode_on_default(env_input) == env_input \in {"", DEFAULT_ENV_SUBDOMAIN}

\* line 728: auto_mode = not env_input
auto_mode(env_input) == env_input = ""

\* line 729
EnvironmentOf(env_input) == IF env_input # "" THEN env_input ELSE DEFAULT_ENV_SUBDOMAIN

\* lines 722-729 and 745-748 of main
Main ==
    /\ pc = "main"
    /\ \E raw \in Answers(EnvInputs) :
          LET env_input == StrippedText(raw)
          IN  /\ Ask("environment", raw)
              /\ mode' = IF auto_mode(env_input) THEN "auto" ELSE "manual"
              /\ environment' = EnvironmentOf(env_input)
              /\ env_urls' = BuildEnvUrls(EnvironmentOf(env_input))
    /\ pc' = "shopper"
    /\ UNCHANGED <<shopper_id, jwt_token, card, encrypted_pan, payment_profile_id,
                   cart_args, config_uri, order_id, invoked, outcomes, response,
                   cart_class, exit_status, uncaught, summary, uuids, sent,
                   logged, script>>
    /\ UNCHANGED <<perf_vars, update_vars>>

\* the driver draws the account handle, then calls the stage
CreateShopperStep(r) ==
    /\ Invoke("create_shopper", r)
    /\ Send(ShopperRequest(env_urls, uuids + 1), 1)
    /\ TakeResponse(r)
    /\ logged' = create_shopper(r).printed
    /\ shopper_id' = create_shopper(r).ret
    /\ AfterFatal(create_shopper(r), "token")
    /\ UNCHANGED <<mode, environment, jwt_token, card, encrypted_pan,
                   payment_profile_id, cart_args, config_uri, order_id,
                   cart_class, summary, env_urls>>

\* lines 548-555
AutoCreateShopper ==
    /\ mode = "auto" /\ pc = "shopper"
    /\ \E r \in ShopperResponses : CreateShopperStep(r)
    /\ UNCHANGED <<prompts, answer>>
    /\ UNCHANGED <<perf_vars, update_vars>>

\* (variant) lines 612-625 creating an account whatever the operator answers
ManualShopperAlwaysCreates ==
    /\ mode = "manual" /\ pc = "shopper"
    /\ \E raw \in Answers(ShopperInputs) :
          /\ Ask("shopper", raw)
          /\ \E r \in ShopperResponses : CreateShopperStep(r)
    /\ UNCHANGED <<perf_vars, update_vars>>

\* lines 612-625
ManualShopper ==
    /\ mode = "manual" /\ pc = "shopper"
    /\ \E raw \in Answers(ShopperInputs) :
          LET user_input == StrippedText(raw)
          IN  /\ Ask("shopper", raw)
              /\ IF user_input = ""
                 THEN \E r \in ShopperResponses : CreateShopperStep(r)
                 ELSE /\ shopper_id' = PyStr(user_input)
                      /\ Goto("token")
                      /\ UNCHANGED <<mode, environment, jwt_token, card, encrypted_pan,
                                     payment_profile_id, cart_args, config_uri,
                                     order_id, invoked, outcomes, response,
                                     cart_class, summary, env_urls, uuids, sent,
                                     logged, script>>
    /\ UNCHANGED <<perf_vars, update_vars>>

TokenStep(r) ==
    /\ Invoke("get_jwt_token", r)
    /\ Send(TokenRequest(env_urls, shopper_id), 0)
    /\ TakeResponse(r)
    /\ logged' = get_jwt_token(r).printed
    /\ jwt_token' = get_jwt_token(r).ret
    /\ AfterFatal(get_jwt_token(r), "patch")
    /\ UNCHANGED <<mode, environment, shopper_id, card, encrypted_pan,
                   payment_profile_id, cart_args, config_uri, order_id,
                   cart_class, summary, env_urls>>

\* lines 558-561
AutoToken ==
    /\ mode = "auto" /\ pc = "token"
    /\ \E r \in TokenResponses : TokenStep(r)
    /\ UNCHANGED <<prompts, answer>>
    /\ UNCHANGED <<perf_vars, update_vars>>
\* lines 628-631
ManualToken ==
    /\ mode = "manual" /\ pc = "token"
    /\ \E r \in TokenResponses : TokenStep(r)
    /\ UNCHANGED <<prompts, answer>>
    /\ UNCHANGED <<perf_vars, update_vars>>

PatchStep(r, next) ==
    /\ Invoke("patch_shopper", r)
    /\ Send(PatchRequest(env_urls, shopper_id, jwt_token), 0)
    /\ TakeResponse(r)
    /\ logged' = patch_shopper(r).printed
    /\ AfterNonFatal(patch_shopper(r), next)
    /\ UNCHANGED <<mode, environment, shopper_id, jwt_token, card, encrypted_pan,
                   payment_profile_id, cart_args, config_uri, order_id,
                   cart_class, summary, env_urls>>

\* line 563
AutoPatch ==
    /\ mode = "auto" /\ pc = "patch"
    /\ \E r \in PatchResponses : PatchStep(r, "encrypt")
    /\ UNCHANGED <<prompts, answer>>
    /\ UNCHANGED <<perf_vars, update_vars>>
\* line 633
ManualPatch ==
    /\ mode = "manual" /\ pc = "patch"
    /\ \E r \in PatchResponses : PatchStep(r, "card_prompt")
    /\ UNCHANGED <<prompts, answer>>
    /\ UNCHANGED <<perf_vars, update_vars>>

\* (variant) lines 640-657 taking the fields given when there are too few
CardFromInputPartial(card_input) ==
    LET parts == Split(card_input)
        Field(i, default) == IF Len(parts) >= i THEN parts[i] ELSE default
    IN  [pan |-> Field(1, DefaultCard.pan), card_type |-> Field(2, DefaultCard.card_type),
         billing_country |-> Field(3, DefaultCard.billing_country),
         currency |-> Field(4, DefaultCard.currency)]

\* lines 640-657: the four fields of a non-empty answer of four words, else
\* the defaults (the code prints "Invalid card input format" for any other
\* non-empty answer)
CardFromInput(card_input) ==
    LET parts == Split(card_input)
    IN  IF card_input # <<>> /\ Len(parts) = 4
        THEN [pan |-> parts[1], card_type |-> parts[2],
              billing_country |-> parts[3], currency |-> parts[4]]
        ELSE DefaultCard

\* lines 637-657: the card the operator gives, or the defaults
ManualCardPrompt ==
    /\ mode = "manual" /\ pc = "card_prompt"
    /\ \E raw \in CardAnswers :
          /\ Ask("card", raw)
          /\ card' = CardFromInput(Strip(raw))
    /\ Goto("encrypt")
    /\ UNCHANGED <<mode, environment, shopper_id, jwt_token, encrypted_pan,
                   payment_profile_id, cart_args, config_uri, order_id, invoked,
                   outcomes, response, cart_class, summary, env_urls, uuids,
                   sent, logged, script>>
    /\ UNCHANGED <<perf_vars, update_vars>>

EncryptStep(r) ==
    /\ Invoke("encrypt_card", r)
    /\ Send(EncryptRequest(card'.pan), 0)
    /\ TakeResponse(r)
    /\ logged' = encrypt_card(r).printed
    /\ encrypted_pan' = encrypt_card(r).ret
    /\ AfterFatal(encrypt_card(r), "profile")
    /\ UNCHANGED <<mode, environment, shopper_id, jwt_token, payment_profile_id,
                   cart_args, config_uri, order_id, cart_class, summary, env_urls>>

\* lines 571-574, on the default card
AutoEncrypt ==
    /\ mode = "auto" /\ pc = "encrypt"
    /\ card' = DefaultCard
    /\ \E r \in EncryptResponses : EncryptStep(r)
    /\ UNCHANGED <<prompts, answer>>
    /\ UNCHANGED <<perf_vars, update_vars>>

\* lines 659-662
ManualEncrypt ==
    /\ mode = "manual" /\ pc = "encrypt"
    /\ card' = card
    /\ \E r \in EncryptResponses : EncryptStep(r)
    /\ UNCHANGED <<prompts, answer>>
    /\ UNCHANGED <<perf_vars, update_vars>>

ProfileStep(r, next) ==
    /\ Invoke("create_payment_profile", r)
    /\ Send(ProfileRequest(env_urls, jwt_token, encrypted_pan, card,
                           uuids + 1, uuids + 2), 2)
    /\ TakeResponse(r)
    /\ logged' = create_payment_profile(r).printed
    /\ payment_profile_id' = create_payment_profile(r).ret
    /\ AfterFatal(create_payment_profile(r), next)
    /\ UNCHANGED <<mode, environment, shopper_id, jwt_token, card, encrypted_pan,
                   cart_args, config_uri, order_id, cart_class, summary, env_urls>>

\* lines 576-582
AutoProfile ==
    /\ mode = "auto" /\ pc = "profile"
    /\ \E r \in ProfileResponses : ProfileStep(r, "cart")
    /\ UNCHANGED <<prompts, answer>>
    /\ UNCHANGED <<perf_vars, update_vars>>
\* lines 664-668
ManualProfile ==
    /\ mode = "manual" /\ pc = "profile"
    /\ \E r \in ProfileResponses : ProfileStep(r, "cart_prompt")
    /\ UNCHANGED <<prompts, answer>>
    /\ UNCHANGED <<perf_vars, update_vars>>

\* (variant) lines 675-691 without the defaults of lines 680-682
CartFromInputNoDefaults(cart_input) ==
    LET parts == Split(cart_input)
    IN  IF cart_input # <<>> /\ Len(parts) = 3
        THEN [country_code |-> parts[1], currency |-> parts[2], product_id |-> parts[3]]
        ELSE NoCartArgs

\* lines 675-691: the three fields of a non-empty answer of three words,
\* else the defaults
CartFromInput(cart_input) ==
    LET parts == Split(cart_input)
    IN  IF cart_input # <<>> /\ Len(parts) = 3
        THEN [country_code |-> parts[1], currency |-> parts[2], product_id |-> parts[3]]
        ELSE DefaultCartArgs

\* lines 672-691: the cart arguments the operator gives, or the defaults
ManualCartPrompt ==
    /\ mode = "manual" /\ pc = "cart_prompt"
    /\ \E raw \in CartAnswers :
          /\ Ask("cart", raw)
          /\ cart_args' = CartFromInput(Strip(raw))
    /\ Goto("cart")
    /\ UNCHANGED <<mode, environment, shopper_id, jwt_token, card, encrypted_pan,
                   payment_profile_id, config_uri, order_id, invoked, outcomes,
                   response, cart_class, summary, env_urls, uuids, sent, logged,
                   script>>
    /\ UNCHANGED <<perf_vars, update_vars>>

\* (variant) an interpretation that keeps the body it has unescaped: once a
\* response has been interpreted, the next interpretation starts from the
\* unescaped text
CartClassUnescapingInPlace(r) ==
    IF r.kind # "ok" THEN NotRun
    ELSE IF cart_class = NotRun THEN InterpretBasketResponse(EnvelopeText(r.env))
    ELSE InterpretBasketResponse(html_unescape(EnvelopeText(r.env)))

\* what the basket stage printed about the response it met
CartClass(r) ==
    IF r.kind = "ok" THEN InterpretBasketResponse(EnvelopeText(r.env)) ELSE NotRun

CartStep(r, next) ==
    /\ Invoke("add_item_to_cart", r)
    /\ Send(CartRequest(env_urls, shopper_id, cart_args', uuids + 1), 1)
    /\ TakeResponse(r)
    /\ logged' = add_item_to_cart(r).printed
    /\ cart_class' = CartClass(r)
    /\ AfterNonFatal(add_item_to_cart(r), next)
    /\ UNCHANGED <<mode, environment, shopper_id, jwt_token, card, encrypted_pan,
                   payment_profile_id, config_uri, order_id, summary, env_urls>>

\* lines 589-590, on the default cart arguments
AutoCart ==
    /\ mode = "auto" /\ pc = "cart"
    /\ cart_args' = DefaultCartArgs
    /\ \E r \in CartResponses : CartStep(r, "purchase")
    /\ UNCHANGED <<prompts, answer>>
    /\ UNCHANGED <<perf_vars, update_vars>>

\* line 693
ManualCart ==
    /\ mode = "manual" /\ pc = "cart"
    /\ cart_args' = cart_args
    /\ \E r \in CartResponses : CartStep(r, "config_prompt")
    /\ UNCHANGED <<prompts, answer>>
    /\ UNCHANGED <<perf_vars, update_vars>>

\* lines 697-702
ManualConfigPrompt ==
    /\ mode = "manual" /\ pc = "config_prompt"
    /\ \E raw \in Answers(ConfigInputs) :
          LET purchase_config_input == StrippedText(raw)
          IN  /\ Ask("config", raw)
              /\ config_uri' = IF purchase_config_input # "" THEN purchase_config_input
                               ELSE DEFAULT_SELLER_CONFIG_URI
    /\ Goto("purchase")
    /\ UNCHANGED <<mode, environment, shopper_id, jwt_token, card, encrypted_pan,
                   payment_profile_id, cart_args, order_id, invoked, outcomes,
                   response, cart_class, summary, env_urls, uuids, sent, logged,
                   script>>
    /\ UNCHANGED <<perf_vars, update_vars>>

\* (variant) lines 601-604 printing the order line whatever was returned
SummaryOrderLineAlways(shopper, order) ==
    [printed |-> TRUE, shopper |-> shopper,
     order |-> IF order = PyNone THEN PyStr("None") ELSE order]

\* lines 601-604 (and 709-712): "Order ID: ... and Shopper ID: ..." when
\* order_id is true, else "Shopper ID: ... (Purchase failed - no Order ID)",
\* which is the summary whose order is None
Summary(shopper, order) ==
    [printed |-> TRUE, shopper |-> shopper,
     order |-> IF Truthy(order) THEN order ELSE PyNone]

\* perform_purchase and the driver's closing lines: the summary, then the
\* normal end of the process
PurchaseStep(r) ==
    LET res == perform_purchase(r, payment_profile_id)
        met == IF res.raised = "ValueError" THEN NoResponse ELSE r
    IN  /\ Invoke("perform_purchase", met)
        /\ IF res.raised = "ValueError"
           THEN sent' = sent /\ uuids' = uuids + 1
           ELSE Send(PurchaseRequest(env_urls, jwt_token, payment_profile_id,
                                     DEFAULT_CVV, config_uri', uuids + 1), 1)
        /\ TakeResponse(met)
        /\ logged' = res.printed
        /\ order_id' = res.ret
        /\ IF res.raised # ""
           THEN Crash /\ summary' = summary
           ELSE /\ pc' = "Done" /\ exit_status' = 0 /\ uncaught' = uncaught
                /\ summary' = Summary(shopper_id, res.ret)
        /\ UNCHANGED <<mode, environment, shopper_id, jwt_token, card, encrypted_pan,
                       payment_profile_id, cart_args, cart_class, env_urls>>

\* lines 596-604, on the default seller configuration
AutoPurchase ==
    /\ mode = "auto" /\ pc = "purchase"
    /\ config_uri' = DEFAULT_SELLER_CONFIG_URI
    /\ \E r \in PurchaseResponses : PurchaseStep(r)
    /\ UNCHANGED <<prompts, answer>>
    /\ UNCHANGED <<perf_vars, update_vars>>

\* lines 704-712
ManualPurchase ==
    /\ mode = "manual" /\ pc = "purchase"
    /\ config_uri' = config_uri
    /\ \E r \in PurchaseResponses : PurchaseStep(r)
    /\ UNCHANGED <<prompts, answer>>
    /\ UNCHANGED <<perf_vars, update_vars>>

Next ==
    \/ Main
    \/ AutoCreateShopper \/ AutoToken \/ AutoPatch \/ AutoEncrypt
    \/ AutoProfile \/ AutoCart \/ AutoPurchase
    \/ ManualShopper \/ ManualToken \/ ManualPatch \/ ManualCardPrompt
    \/ ManualEncrypt \/ ManualProfile \/ ManualCartPrompt \/ ManualCart
    \/ ManualConfigPrompt \/ ManualPurchase

Spec == Init /\ [][Next]_vars

-----------------------------------------------------------------------------
(* The interpretation of a basket response on its own: a response with a    *)
(* successful status has arrived, and lines 443-472 interpret its body.     *)

CartInit ==
    /\ pc = "cart_received"
    /\ mode = "unset"
    /\ environment = DEFAULT_ENV_SUBDOMAIN
    /\ shopper_id = PyStr("s1")
    /\ jwt_token = PyNone
    /\ card = NoCard
    /\ encrypted_pan = PyNone
    /\ payment_profile_id = PyNone
    /\ cart_args = DefaultCartArgs
    /\ config_uri = ""
    /\ order_id = PyNone
    /\ invoked = <<"add_item_to_cart">>
    /\ outcomes = [s \in Stages |-> IF s = "add_item_to_cart" THEN "ok" ELSE "none"]
    /\ response \in {Xml(d) : d \in Bodies}
    /\ cart_class = NotRun
    /\ exit_status = -1
    /\ uncaught = FALSE
    /\ summary = NoSummary
    /\ env_urls = BuildEnvUrls(DEFAULT_ENV_SUBDOMAIN)
    /\ prompts = <<>>
    /\ answer = <<>>
    /\ uuids = 1
    /\ sent = <<CartRequest(env_urls, shopper_id, cart_args, 1)>>
    /\ logged = ""
    /\ script = Unscripted
    /\ PerfIdle /\ UpdateIdle

CartInterpret ==
    /\ pc = "cart_received"
    /\ cart_class' = CartClass(response)
    /\ pc' = "cart_interpreted"
    /\ UNCHANGED <<mode, environment, shopper_id, jwt_token, card, encrypted_pan,
                   payment_profile_id, cart_args, config_uri, order_id, invoked,
                   outcomes, response, exit_status, uncaught, summary, env_urls,
                   prompts, answer, uuids, sent, logged, script>>
    /\ UNCHANGED <<perf_vars, update_vars>>

\* lines 443-472 applied once more to the response already interpreted
CartReinterpret ==
    /\ pc = "cart_interpreted"
    /\ cart_class' = CartClass(response)
    /\ pc' = "cart_reinterpreted"
    /\ UNCHANGED <<mode, environment, shopper_id, jwt_token, card, encrypted_pan,
                   payment_profile_id, cart_args, config_uri, order_id, invoked,
                   outcomes, response, exit_status, uncaught, summary, env_urls,
                   prompts, answer, uuids, sent, logged, script>>
    /\ UNCHANGED <<perf_vars, update_vars>>

CartNext == CartInterpret \/ CartReinterpret

CartSpec == CartInit /\ [][CartNext]_vars

-----------------------------------------------------------------------------
(* The two drivers side by side: a run of the automatic driver, then a run  *)
(* of the interactive driver in the same environment, the operator          *)
(* answering every later prompt with an empty line and the services giving  *)
(* each stage the result they gave in the first run.                        *)

\* a request without the values drawn from uuid.uuid4()
Unlabelled(request) ==
    [stage |-> request.stage, url |-> request.url, auth |-> request.auth,
     drawn |-> Len(request.ids), body |-> request.body]

\* what a run shows: the stages called, their requests and results, what was
\* printed, how the process ended
Observation ==
    [invoked |-> invoked,
     requests |-> [i \in 1..Len(sent) |-> Unlabelled(sent[i])],
     results |-> <<shopper_id, jwt_token, encrypted_pan, payment_profile_id, order_id>>,
     outcomes |-> outcomes, cart_class |-> cart_class, logged |-> logged,
     summary |-> summary, pc |-> pc, exit_status |-> exit_status,
     uncaught |-> uncaught]

TwinInit == Fresh /\ script = Recording /\ PerfIdle /\ UpdateIdle

\* the first run has ended: the process is started again, in the state Fresh
Restart ==
    /\ script.phase = "record"
    /\ pc \in {"Done", "Aborted", "Crashed"}
    /\ pc' = "main"
    /\ mode' = "unset"
    /\ environment' = ""
    /\ shopper_id' = PyNone
    /\ jwt_token' = PyNone
    /\ card' = NoCard
    /\ encrypted_pan' = PyNone
    /\ payment_profile_id' = PyNone
    /\ cart_args' = NoCartArgs
    /\ config_uri' = ""
    /\ order_id' = PyNone
    /\ invoked' = <<>>
    /\ outcomes' = [s \in Stages |-> "none"]
    /\ response' = NoResponse
    /\ cart_class' = NotRun
    /\ exit_status' = -1
    /\ uncaught' = FALSE
    /\ summary' = NoSummary
    /\ env_urls' = NoUrls
    /\ prompts' = <<>>
    /\ answer' = <<>>
    /\ uuids' = 0
    /\ sent' = <<>>
    /\ logged' = ""
    /\ script' = [phase |-> "replay", tape |-> script.tape, first |-> Observation]
    /\ UNCHANGED <<perf_vars, update_vars>>

TwinNext == Next \/ Restart

TwinSpec == TwinInit /\ [][TwinNext]_vars

-----------------------------------------------------------------------------
(* Payment registration on its own: create_payment_profile called again and *)
(* again for one purchase attempt, with the token and the encrypted number   *)
(* the earlier stages returned.                                              *)

RegistrationInit ==
    /\ pc = "registering"
    /\ mode = "unset"
    /\ environment = DEFAULT_ENV_SUBDOMAIN
    /\ shopper_id = PyStr("s1")
    /\ jwt_token \in {PyStr("tokA"), PyStr("tokB")}
    /\ card \in {DefaultCard, CardFromInput(CardParts(4))}
    /\ encrypted_pan = PyStr("enc")
    /\ payment_profile_id = PyNone
    /\ cart_args = NoCartArgs
    /\ config_uri = ""
    /\ order_id = PyNone
    /\ invoked = <<>>
    /\ outcomes = [s \in Stages |-> "none"]
    /\ response = NoResponse
    /\ cart_class = NotRun
    /\ exit_status = -1
    /\ uncaught = FALSE
    /\ summary = NoSummary
    /\ env_urls = BuildEnvUrls(DEFAULT_ENV_SUBDOMAIN)
    /\ prompts = <<>>
    /\ answer = <<>>
    /\ uuids \in {0, 1}
    /\ sent = <<>>
    /\ logged = ""
    /\ script = Unscripted
    /\ PerfIdle /\ UpdateIdle

\* one more call of create_payment_profile (lines 358-398), whatever the
\* earlier calls met
RegisterPayment ==
    /\ pc = "registering"
    /\ Len(invoked) < MaxCalls
    /\ \E r \in ProfileResponses :
          /\ Invoke("create_payment_profile", r)
          /\ Send(ProfileRequest(env_urls, jwt_token, encrypted_pan, card,
                                 uuids + 1, uuids + 2), 2)
          /\ TakeResponse(r)
          /\ logged' = create_payment_profile(r).printed
          /\ payment_profile_id' = create_payment_profile(r).ret
    /\ UNCHANGED <<pc, mode, environment, shopper_id, jwt_token, card, encrypted_pan,
                   cart_args, config_uri, order_id, cart_class, exit_status,
                   uncaught, summary, env_urls, prompts, answer>>
    /\ UNCHANGED <<perf_vars, update_vars>>

\* the billing countries an operator may name
BillingCountries == {"US", "CA", "DE"}

\* lines 637-651 of the next run: the operator gives the card of the run
\* before with another billing country, in four words
AnotherBillingCountry ==
    /\ pc = "registering"
    /\ Len(prompts) + 1 = Len(invoked)
    /\ \E c \in BillingCountries \ {card.billing_country} :
          /\ Ask("card", <<card.pan, card.card_type, c, card.currency>>)
          /\ card' = CardFromInput(Strip(answer'))
    /\ UNCHANGED <<pc, mode, environment, shopper_id, jwt_token, encrypted_pan,
                   payment_profile_id, cart_args, config_uri, order_id, invoked,
                   outcomes, response, cart_class, exit_status, uncaught, summary,
                   env_urls, uuids, sent, logged, script>>
    /\ UNCHANGED <<perf_vars, update_vars>>

RegistrationNext == RegisterPayment \/ AnotherBillingCountry

RegistrationSpec == RegistrationInit /\ [][RegistrationNext]_vars

-----------------------------------------------------------------------------
(* Vocabulary of the properties *)

Terminal == pc \in {"Done", "Aborted", "Crashed"}
\* the run ended without reaching Done: by sys.exit(1) or by a traceback
AbortedRun == pc \in {"Aborted", "Crashed"}

FatalStages == {"create_shopper", "get_jwt_token", "encrypt_card", "create_payment_profile"}
NonFatalStages == {"patch_shopper", "add_item_to_cart"}

\* the failures of the error taxonomy, as Met records them
TransportFailures == {"conn", "timeout"}
DecodeFailures == {"badjson", "badjson_req", "nonobject", "missing"}
FailureKinds == TransportFailures \cup {"http"} \cup DecodeFailures

WasInvoked(stage) == \E i \in 1..Len(invoked) : invoked[i] = stage
LastInvoked == IF invoked = <<>> THEN "none" ELSE invoked[Len(invoked)]
IndexOf(stage) == CHOOSE i \in 1..Len(invoked) : invoked[i] = stage

-----------------------------------------------------------------------------
(* Properties of the drivers, checked under Spec *)

\* C1: in both drivers, when a fatal stage (create_shopper, get_jwt_token,
\* encrypt_card, create_payment_profile) has failed - its request met a
\* connection failure, a timeout, a rejected status, an undecodable body or a
\* body without the expected field - that stage is the last one invoked and
\* the run has ended without reaching Done, with a nonzero exit status.
C1_FatalFailureAborts ==
    \A f \in FatalStages :
        outcomes[f] \in FailureKinds =>
            /\ LastInvoked = f
            /\ AbortedRun
            /\ exit_status # 0

\* C2: when patch_shopper has received an HTTP 500 response the run goes on:
\* right after the patch the run has not ended and can take its next step, the
\* stage invoked next is encrypt_card, and when the encryption service has
\* answered with an encrypted number the run stands before
\* create_payment_profile, which is the stage invoked next.
C2_PatchHttp500Proceeds ==
    outcomes["patch_shopper"] = "http" =>
        /\ Len(invoked) = IndexOf("patch_shopper") =>
                /\ response.status = 500
                /\ pc \in {"encrypt", "card_prompt"}
                /\ exit_status = -1
                /\ ENABLED Next
        /\ Len(invoked) > IndexOf("patch_shopper") =>
                invoked[IndexOf("patch_shopper") + 1] = "encrypt_card"
        /\ (LastInvoked = "encrypt_card" /\ outcomes["encrypt_card"] = "ok") =>
                /\ pc = "profile"
                /\ ENABLED (AutoProfile \/ ManualProfile)
        /\ Len(invoked) > IndexOf("patch_shopper") + 1 =>
                invoked[IndexOf("patch_shopper") + 2] = "create_payment_profile"

\* C2, reached: an automatic run whose patch met HTTP 500 has invoked
\* create_payment_profile
C2_Witness ==
    /\ mode = "auto"
    /\ outcomes["patch_shopper"] = "http"
    /\ LastInvoked = "create_payment_profile"
    /\ invoked[Len(invoked) - 1] = "encrypt_card"

\* C3: whatever failure of the taxonomy (connection failure, timeout, rejected
\* status, undecodable body) a non-fatal stage (patch_shopper,
\* add_item_to_cart) has met, the run has not ended with it and can take its
\* next step.
C3_NonFatalFailureSwallowed ==
    \A s \in NonFatalStages :
        (LastInvoked = s
            /\ (outcomes[s] \in FailureKinds \/ cart_class.error = "ParseError")) =>
                /\ ~Terminal
                /\ ENABLED Next

\* C4: when the account service answers create_shopper with a successful
\* status and a body without the shopperId field, the driver holds no shopper
\* id, the run is Aborted and get_jwt_token is not invoked.
C4_MissingShopperIdAborts ==
    outcomes["create_shopper"] = "missing" =>
        /\ ~Truthy(shopper_id)
        /\ pc = "Aborted"
        /\ ~WasInvoked("get_jwt_token")

\* the token service has just answered get_jwt_token with a JSON object
TokenAnswered == LastInvoked = "get_jwt_token" /\ response.kind = "ok"
\* the field is in the body / holds a non-empty string
Present(x) == x.j # "absent"
HasToken(x) == x.j = "str" /\ x.v # ""

\* C5, as stated: get_jwt_token returns the token of the primary field
\* (jwtToken) whenever that field is present - an empty one being no credential
\* -, returns the token of the fallback field (data) only when the primary
\* field is absent, and returns None when neither field is present.
C5_PrimaryWheneverPresent ==
    TokenAnswered =>
        /\ Present(response.primary) =>
                jwt_token = IF HasToken(response.primary)
                            THEN PyStr(response.primary.v) ELSE PyNone
        /\ (HasToken(response.fallback) /\ jwt_token = PyStr(response.fallback.v)) =>
                ~Present(response.primary)
        /\ (~Present(response.primary) /\ ~Present(response.fallback)) =>
                jwt_token = PyNone

\* C5, amended: get_jwt_token returns the primary field's token when that
\* field holds a non-empty value; it returns the fallback field's token when
\* the primary field is absent, null or empty and the fallback holds a
\* non-empty value; it returns None, and the run is Aborted, when neither
\* field holds a non-empty value.
C5_PrimaryWhenNonEmpty ==
    TokenAnswered =>
        /\ HasToken(response.primary) => jwt_token = PyStr(response.primary.v)
        /\ (~HasToken(response.primary) /\ HasToken(response.fallback)) =>
                jwt_token = PyStr(response.fallback.v)
        /\ (~HasToken(response.primary) /\ ~HasToken(response.fallback)) =>
                jwt_token = PyNone /\ pc = "Aborted"
        /\ Truthy(jwt_token) => pc = "patch"

\* C5, reached: the primary field is present and empty, and the fallback
\* field's token was returned
C5_Witness ==
    /\ TokenAnswered
    /\ response.primary = JStr("")
    /\ HasToken(response.fallback)
    /\ jwt_token = PyStr(response.fallback.v)

\* C6: once create_payment_profile has succeeded, a run that has ended has
\* reached Done with exit status zero and has printed the summary with the
\* shopper id, whatever add_item_to_cart and perform_purchase have met.
C6_DoneAfterRegistration ==
    (outcomes["create_payment_profile"] = "ok" /\ Terminal) =>
        /\ pc = "Done"
        /\ exit_status = 0
        /\ summary.printed
        /\ summary.shopper = shopper_id

\* C7: after add_item_to_cart, whatever it has met (success, a reported
\* message, an unparseable response, a failed request), the run has not
\* ended before perform_purchase is invoked: it stands before the purchase
\* and can take its next step.
C7_PurchaseAfterCart ==
    LastInvoked = "add_item_to_cart" =>
        /\ pc \in {"purchase", "config_prompt"}
        /\ ~AbortedRun
        /\ ENABLED Next

-----------------------------------------------------------------------------
(* Properties of the interpretation of a basket response, checked under     *)
(* CartSpec on every body of Bodies.                                        *)

Interpreted == pc = "cart_interpreted"

\* the body is a document: its outer envelope is well-formed
IsEnvelope(d) == WellFormed(EnvelopeText(d))

\* no element named return, qualified by the basket namespace or unqualified
ReturnAbsent(d) == d.shape \in {"absent", "other_ns"}

\* the return content starts with no character data: it is empty, or the
\* nested document is not escaped and the node holds child elements
NoLeadingText(d) ==
    \/ d.inner = "empty"
    \/ d.inner = "text" /\ d.msg = <<>>
    \/ d.esc = 0 /\ d.inner \in {"response", "deep", "msg_root", "no_msg"}

\* the return node the body is built with first in the order of preference
\* (namespace-qualified, then unqualified) has empty text
ReturnEmpty(d) ==
    \/ d.shape = "ns_empty"
    \/ d.shape \in {"ns", "plain", "both", "root"} /\ NoLeadingText(d)

\* the letters of "success", in either case
SuccessLetters ==
    << {"s", "S"}, {"u", "U"}, {"c", "C"}, {"c", "C"}, {"e", "E"}, {"s", "S"}, {"s", "S"} >>
SpellsSuccess(m) ==
    Len(m) = Len(SuccessLetters) /\ \A i \in 1..Len(m) : m[i] \in SuccessLetters[i]

\* the outcome the message m of the nested document calls for
ByMessage(m) ==
    IF SpellsSuccess(m) THEN Classified("success", Chars(m))
    ELSE Classified("reported", Chars(m))

\* C8: every envelope in which the return node is absent under both accepted
\* names, or is present with empty text, is classified unparseable.
C8_NoReturnContentUnparseable ==
    (Interpreted /\ IsEnvelope(response.env)
        /\ (ReturnAbsent(response.env) \/ ReturnEmpty(response.env))) =>
            cart_class = Classified("unparseable", <<>>)

\* C8, reached: an envelope whose qualified return node is present and empty
\* has been classified unparseable
C8_Witness ==
    /\ Interpreted
    /\ response.env.shape = "ns"
    /\ response.env.inner = "empty"
    /\ cart_class.outcome = "unparseable"

\* C9, as stated: a response whose return node holds the escaped nested
\* document with a non-empty message is classified success exactly when the
\* message equals "success" ignoring letter case, and otherwise
\* reported-failure carrying the message unchanged.  The bodies are those of
\* the specification's scenario: the return node anywhere, the root included,
\* the nested document escaped once, its MESSAGE element anywhere.
C9_SuccessIffMessage ==
    (Interpreted
        /\ response.env.shape \in {"ns", "plain", "root"}
        /\ response.env.esc = 1
        /\ response.env.inner \in {"response", "deep", "msg_root"}
        /\ response.env.msg # <<>>) =>
            cart_class = ByMessage(response.env.msg)

\* C9, amended: when the return node lies below the root of the envelope,
\* its text holds the nested document entity-escaped once or twice, and the
\* MESSAGE element lies below the root of the nested document with non-empty
\* text, the response is classified success exactly when the message equals
\* "success" ignoring letter case and otherwise reported-failure carrying the
\* message unchanged; when the return node is the root of the response, or
\* MESSAGE is the root of the nested document, the lookup misses it and the
\* response is classified unparseable.
C9_SuccessIffMessageBelowRoot ==
    (Interpreted /\ response.env.esc \in {1, 2} /\ response.env.msg # <<>>) =>
        /\ (response.env.shape \in {"ns", "plain", "both"}
                /\ response.env.inner \in {"response", "deep"}) =>
                    cart_class = ByMessage(response.env.msg)
        /\ (response.env.shape = "root"
                /\ response.env.inner \in {"response", "deep", "msg_root"}) =>
                    cart_class = Classified("unparseable", <<>>)
        /\ (response.env.shape \in {"ns", "plain", "both"}
                /\ response.env.inner = "msg_root") =>
                    cart_class = Classified("unparseable", <<>>)

\* C9, reached: a message in another letter case than "success" has been
\* classified success, with the message as it was sent
C9_Witness ==
    /\ Interpreted
    /\ response.env.shape = "ns"
    /\ response.env.esc = 1
    /\ response.env.msg = <<"s", "U", "c", "C", "e", "S", "s">>
    /\ cart_class = Classified("success", Chars(response.env.msg))

\* C10: every basket response with a successful status is classified into
\* one of success, reported-failure, unparseable, whatever its body.
C10_AlwaysClassified ==
    Interpreted => cart_class.outcome \in {"success", "reported", "unparseable"}

-----------------------------------------------------------------------------
(* C11: interpreting the same raw basket response a second time gives the  *)
(* outcome the first interpretation gave: parse, unescape, parse reads only *)
(* the response, and nothing the first application leaves behind changes    *)
(* what the second one finds.                                               *)

-----------------------------------------------------------------------------
(* Properties of the requests, checked under Spec *)

\* the field holds an identifier: a non-empty string or a number
HoldsIdentifier(x) == x.j \in {"str", "num"} /\ x.v # ""

\* this step calls stage
Calls(stage) == invoked' = Append(invoked, stage)

LastSent == sent[Len(sent)]

\* C12: when the account service answers the creation request successfully
\* and the answer's shopperId field holds an identifier, create_shopper
\* returns that identifier (as text, unchanged), and the token request that
\* follows carries this same value as its username.
C12_CreatedIdentifierReachesToken ==
    [][/\ (Calls("create_shopper") /\ response'.kind = "ok"
             /\ HoldsIdentifier(response'.primary))
          => (shopper_id' = PyStr(response'.primary.v) /\ pc' = "token")
       /\ Calls("get_jwt_token")
          => (sent'[Len(sent')].body = <<shopper_id>> /\ shopper_id' = shopper_id)]_vars

\* the token request carries the numeric identifier the account service gave
C12_Witness ==
    /\ invoked = <<"create_shopper", "get_jwt_token">>
    /\ outcomes["create_shopper"] = "ok"
    /\ shopper_id = PyStr("501")
    /\ LastSent.stage = "get_jwt_token"
    /\ LastSent.body = <<PyStr("501")>>

\* the requests made so far by create_payment_profile
ProfileRequestsSent == {i \in 1..Len(sent) : sent[i].stage = "create_payment_profile"}
X_Request_Id(request) == request.ids[1]
idempotentId(request) == request.ids[2]

\* C13: any two calls of create_payment_profile send different idempotentId
\* headers, and the X-Request-Id and the idempotentId of a call are two values
\* drawn for that call: they differ from each other and from every value an
\* earlier call has sent.  (uuid.uuid4() is taken to return a value it has
\* not returned before.)
C13_IdentifiersFreshPerCall ==
    \A i \in ProfileRequestsSent :
       /\ X_Request_Id(sent[i]) # idempotentId(sent[i])
       /\ \A j \in ProfileRequestsSent :
             j < i => /\ idempotentId(sent[i]) # idempotentId(sent[j])
                      /\ idempotentId(sent[i]) # X_Request_Id(sent[j])
                      /\ X_Request_Id(sent[i]) # idempotentId(sent[j])
                      /\ X_Request_Id(sent[i]) # X_Request_Id(sent[j])

\* as many calls as the bound allows, all with the same payload, the last
\* of them answered with a profile id
C13_Witness ==
    /\ pc = "registering"
    /\ Cardinality(ProfileRequestsSent) = MaxCalls
    /\ outcomes["create_payment_profile"] = "ok"
    /\ sent[1].body = sent[2].body

\* the keys of env_urls: the shopper (identity), SSO (authentication),
\* payment and basket (cart) services
ServiceKeys ==
    {"SHOPPER_API_BASE_URL", "SSO_API_BASE_URL", "PAYMENT_API_BASE_URL", "BASKET_API_URL"}

Contains(url, label) == \E i \in 1..Len(url) : url[i] = label

\* C14: whatever environment label is in force (the one the operator typed,
\* or the default), once main has resolved it there are exactly four base
\* addresses, each of them non-empty and containing the label as it is, and
\* no stage is invoked before they are there.
C14_FourAddressesBeforeStages ==
    (pc # "main" \/ invoked # <<>>) =>
        /\ environment # ""
        /\ DOMAIN env_urls = ServiceKeys
        /\ \A k \in ServiceKeys :
              /\ env_urls[k] # <<>>
              /\ \A i \in 1..Len(env_urls[k]) : env_urls[k][i] # ""
              /\ Contains(env_urls[k], environment)

\* the first stage is invoked in the environment the operator named
C14_Witness ==
    /\ environment = "dev"
    /\ Len(invoked) = 1
    /\ Contains(sent[1].url, "dev")
    /\ env_urls["BASKET_API_URL"] =
          <<"https://gdcomm.", "dev", ".glbt1.gdg/WscgdBasket/WscgdBasket.dll">>

\* the stages that talk to the payment service
PaymentStages == {"create_payment_profile", "perform_purchase"}

\* no request made so far to the payment service holds the card number
RawNumberWithheld ==
    \A i \in 1..Len(sent) :
       sent[i].stage \in PaymentStages =>
          \A k \in 1..Len(sent[i].body) : sent[i].body[k] # PyStr(card.pan)

\* C15: the number field of the request create_payment_profile makes is the
\* value encrypt_card returned in this run, which is the value the encryption
\* service answered; the card number itself, the default one or the
\* operator's, is in no request to the payment service.  (The encryption
\* service is taken to answer something other than the number it was sent.)
C15_OnlyEncryptedNumberRegistered ==
    [][/\ (Calls("encrypt_card") /\ response'.kind = "ok" /\ JsonTruthy(response'.primary))
          => encrypted_pan' = PyStr(response'.primary.v)
       /\ Calls("create_payment_profile")
          => /\ sent'[Len(sent')].stage = "create_payment_profile"
             /\ sent'[Len(sent')].body[1] = encrypted_pan
             /\ encrypted_pan' = encrypted_pan
       /\ RawNumberWithheld']_vars

\* the operator's card has been encrypted and registered
C15_Witness ==
    /\ mode = "manual"
    /\ card.pan = CardWord(1)
    /\ LastInvoked = "create_payment_profile"
    /\ \E i \in 1..Len(sent) : sent[i] = EncryptRequest(CardWord(1))
    /\ LastSent.body[1] = PyStr("enc")

\* the interactive driver is past its shopper prompt and create_shopper was
\* not called: the operator gave the identifier of an existing account
ExistingSupplied ==
    mode = "manual" /\ pc \notin {"main", "shopper"} /\ outcomes["create_shopper"] = "none"

LastPrompt == IF prompts = <<>> THEN "none" ELSE prompts[Len(prompts)]

\* C16: in the interactive driver, when the operator answers the shopper
\* prompt with an identifier, the account identity is the text typed (the
\* whitespace around it aside, no other change), and the first call the
\* driver makes is the token request for that identity: no request creates
\* or verifies the account.
C16_ExistingIdentifierAsEntered ==
    /\ (mode = "manual" /\ LastPrompt = "shopper" /\ Strip(answer) # <<>>)
          => /\ Strip(answer) = <<shopper_id.v>>
             /\ shopper_id.t = "str"
             /\ ExistingSupplied
    /\ ExistingSupplied
          => /\ \A i \in 1..Len(sent) : sent[i].stage # "create_shopper"
             /\ ~WasInvoked("create_shopper")
             /\ invoked # <<>>
                   => /\ invoked[1] = "get_jwt_token"
                      /\ sent[1] = TokenRequest(env_urls, shopper_id)

\* the token was requested for the identifier the operator typed
C16_Witness ==
    /\ mode = "manual"
    /\ LastPrompt = "shopper"
    /\ answer = Padded(<<"existing-1">>)
    /\ invoked = <<"get_jwt_token">>
    /\ sent[1].body = <<PyStr("existing-1")>>

\* how many times the prompt was shown
TimesAsked(prompt) == Cardinality({i \in 1..Len(prompts) : prompts[i] = prompt})
TimesInvoked(stage) == Cardinality({i \in 1..Len(invoked) : invoked[i] = stage})
RequestsOf(stage) == {sent[i] : i \in {k \in 1..Len(sent) : sent[k].stage = stage}}

\* the last answer is empty or has not n words
NotOfWords(n) == Len(Split(answer)) # n

\* C17: in the interactive driver, an answer to the card prompt that is empty
\* or has not four words leaves the card number, type, billing country and
\* currency all at their defaults, and an answer to the cart prompt that is
\* empty or has not three words leaves the country code, currency and
\* product id all at theirs; the prompt is shown once only, the driver goes
\* on to the stage, and the stage is called once, with the defaults.
C17_MalformedAnswerKeepsDefaults ==
    /\ (mode = "manual" /\ LastPrompt = "card" /\ NotOfWords(4))
          => /\ card = DefaultCard
             /\ TimesAsked("card") = 1
             /\ pc # "card_prompt"
             /\ pc = "encrypt" => (ENABLED ManualEncrypt /\ ~WasInvoked("encrypt_card"))
             /\ TimesInvoked("encrypt_card") <= 1
             /\ TimesInvoked("create_payment_profile") <= 1
             /\ RequestsOf("encrypt_card") \subseteq {EncryptRequest(DefaultCard.pan)}
             /\ \A q \in RequestsOf("create_payment_profile") :
                   q.body = <<encrypted_pan, PyStr(DefaultCard.card_type),
                              PyStr(DefaultCard.currency),
                              PyStr(DEFAULT_BILLING_CONTACT_INFO.country)>>
    /\ (mode = "manual" /\ LastPrompt = "cart" /\ NotOfWords(3))
          => /\ cart_args = DefaultCartArgs
             /\ TimesAsked("cart") = 1
             /\ pc # "cart_prompt"
             /\ pc = "cart" => (ENABLED ManualCart /\ ~WasInvoked("add_item_to_cart"))
             /\ TimesInvoked("add_item_to_cart") <= 1
             /\ \A q \in RequestsOf("add_item_to_cart") :
                   q.body = <<shopper_id, PyStr(DefaultCartArgs.currency),
                              PyStr(DefaultCartArgs.country_code),
                              PyStr(DefaultCartArgs.product_id)>>

\* three words at the card prompt: the default card was encrypted and registered
C17_Witness ==
    /\ mode = "manual"
    /\ LastPrompt = "card"
    /\ Split(answer) = CardParts(3)
    /\ invoked[Len(invoked) - 1] = "encrypt_card"
    /\ LastInvoked = "create_payment_profile"
    /\ LastSent.body = <<PyStr("enc"), PyStr("Visa"), PyStr("USD"), PyStr("US")>>

\* the kinds of the error taxonomy, as Met records them, and the line that
\* names each
TaxonomyKinds == {"conn", "timeout", "http", "badjson", "badjson_req"}
KindMessage(kind) ==
    CASE kind = "conn" -> "Connection error occurred"
      [] kind = "timeout" -> "Timeout error occurred"
      [] kind = "http" -> "HTTP error occurred"
      [] OTHER -> "Failed to decode JSON"

\* what the driver holds of the stage's return value (patch_shopper and
\* add_item_to_cart return nothing)
ResultOf(stage) ==
    CASE stage = "create_shopper" -> shopper_id
      [] stage = "get_jwt_token" -> jwt_token
      [] stage = "encrypt_card" -> encrypted_pan
      [] stage = "create_payment_profile" -> payment_profile_id
      [] stage = "perform_purchase" -> order_id
      [] OTHER -> PyNone

\* C18: whatever stage was called last, when its request met a connection
\* failure, a timeout, a rejected status or an undecodable body, the stage
\* has printed the line that names that kind of failure and has returned its
\* no-result value: no exception has left the stage.
C18_StageHandlesEveryFailure ==
    \A s \in Stages :
        (LastInvoked = s /\ outcomes[s] \in TaxonomyKinds) =>
            /\ ~uncaught
            /\ logged = KindMessage(outcomes[s])
            /\ ResultOf(s) = PyNone

\* the order in which the drivers call the stages
StageOrder ==
    <<"create_shopper", "get_jwt_token", "patch_shopper", "encrypt_card",
      "create_payment_profile", "add_item_to_cart", "perform_purchase">>

IsPrefix(a, b) == Len(a) <= Len(b) /\ a = SubSeq(b, 1, Len(a))

\* C19: at every point of a run of either driver, the stages called so far
\* are the first ones of the fixed order create_shopper, get_jwt_token,
\* patch_shopper, encrypt_card, create_payment_profile, add_item_to_cart,
\* perform_purchase, without create_shopper when the operator has given an
\* existing identifier: no stage is called twice or out of its turn, and a
\* stage is called only when the one before it has returned (a call is one
\* step, and the next call is a later step).
C19_StagesInFixedOrder ==
    /\ IF ExistingSupplied THEN IsPrefix(invoked, Tail(StageOrder))
       ELSE IsPrefix(invoked, StageOrder)
    /\ \A s \in Stages : TimesInvoked(s) <= 1
    /\ [i \in 1..Len(sent) |-> sent[i].stage] = SubSeq(invoked, 1, Len(sent))

\* a complete run on an existing identifier, and so without create_shopper
C19_Witness ==
    /\ pc = "Done"
    /\ ExistingSupplied
    /\ invoked = Tail(StageOrder)
    /\ outcomes["encrypt_card"] = "ok"

-----------------------------------------------------------------------------
(* Properties of the two drivers side by side, checked under TwinSpec *)

\* the stage the driver calls next, once the prompt before it (if any) is
\* answered
AboutToCall ==
    CASE pc = "shopper" -> "create_shopper"
      [] pc = "token" -> "get_jwt_token"
      [] pc = "patch" -> "patch_shopper"
      [] pc \in {"card_prompt", "encrypt"} -> "encrypt_card"
      [] pc = "profile" -> "create_payment_profile"
      [] pc \in {"cart_prompt", "cart"} -> "add_item_to_cart"
      [] pc \in {"config_prompt", "purchase"} -> "perform_purchase"
      [] OTHER -> "none"

\* C20: when the interactive driver runs in the environment of an automatic
\* run, every prompt after the environment prompt is answered with an empty
\* line and each stage gets the result it got in the automatic run, the
\* interactive driver calls the stages the automatic driver called (the
\* stage it is about to call is the one the automatic driver called at that
\* point), in the same order, with the same requests (the uuid4 values aside), holds the same
\* results and ends in the same way, with the same exit status.  (The
\* environment prompt is answered with the default label: an empty answer to
\* it selects the automatic driver.)
C20_DriversAgreeOnEmptyAnswers ==
    script.phase = "replay" =>
        /\ pc # "main" => mode = "manual"
        /\ IsPrefix(invoked, script.first.invoked)
        /\ AboutToCall # "none"
              => /\ Len(invoked) < Len(script.first.invoked)
                 /\ script.first.invoked[Len(invoked) + 1] = AboutToCall
                 /\ Len(script.tape) = Len(script.first.invoked) - Len(invoked)
        /\ pc \in {"Done", "Aborted", "Crashed"}
              => (script.tape = <<>> /\ Observation = script.first)

\* both drivers have completed the purchase, the interactive one on empty
\* answers to its four prompts
C20_Witness ==
    /\ script.phase = "replay"
    /\ mode = "manual"
    /\ pc = "Done"
    /\ prompts = <<"environment", "shopper", "card", "cart", "config">>
    /\ script.first.pc = "Done"
    /\ Len(script.first.invoked) = 7
    /\ order_id = PyStr("order-1")

-----------------------------------------------------------------------------
(* Properties of the values a run holds, checked under Spec *)

\* the stages that send the Authorization header
AuthenticatedStages == {"patch_shopper", "create_payment_profile", "perform_purchase"}

\* every request made so far carries the identity, the credential and the
\* payment profile the driver holds
CarriesHeldValues ==
    \A i \in 1..Len(sent) :
       LET q == sent[i]
       IN  /\ q.stage \in AuthenticatedStages => (q.auth = jwt_token /\ Truthy(jwt_token))
           /\ q.stage = "get_jwt_token" => q.body = <<shopper_id>>
           /\ q.stage = "patch_shopper" => Contains(q.url, shopper_id.v)
           /\ q.stage = "add_item_to_cart" => q.body[1] = shopper_id
           /\ q.stage = "perform_purchase" => q.body[1] = payment_profile_id

\* C21: the shopper id is assigned by create_shopper (or by the operator's
\* answer), the token by get_jwt_token and the payment profile id by
\* create_payment_profile, and no other step of the run assigns them; the
\* requests of patch_shopper, create_payment_profile and perform_purchase
\* carry the token get_jwt_token returned, the requests that name the shopper
\* name the one shopper id, and the purchase request names the profile id
\* create_payment_profile returned.
C21_HeldValuesNeverReassigned ==
    [][/\ (pc # "shopper") => shopper_id' = shopper_id
       /\ ~Calls("get_jwt_token") => jwt_token' = jwt_token
       /\ ~Calls("create_payment_profile") => payment_profile_id' = payment_profile_id
       /\ (Calls("get_jwt_token") /\ response'.kind = "ok" /\ JsonTruthy(TokenField(response')))
             => jwt_token' = PyStr(TokenField(response').v)
       /\ (Calls("create_payment_profile") /\ response'.kind = "ok"
             /\ JsonTruthy(response'.primary))
             => payment_profile_id' = PyStr(response'.primary.v)
       /\ CarriesHeldValues']_vars

\* a complete run: seven requests with the one identity, token and profile
C21_Witness ==
    /\ pc = "Done"
    /\ invoked = StageOrder
    /\ Len(sent) = 7
    /\ sent[3].auth = jwt_token
    /\ sent[7].auth = jwt_token
    /\ sent[7].body[1] = payment_profile_id
    /\ summary.order = PyStr("order-1")

\* the purchase service has answered with an order id
OrderReturned == response.kind = "ok" /\ JsonTruthy(response.primary)

\* C22: when a run has reached Done, the summary has been printed and names
\* the shopper id of the run; it names an order id exactly when
\* perform_purchase has returned one - the one the purchase service answered
\* - and otherwise it is the line that reports the purchase as failed (the
\* summary without an order).
C22_SummaryOfCompletedRun ==
    pc = "Done" =>
        /\ LastInvoked = "perform_purchase"
        /\ summary.printed
        /\ summary.shopper = shopper_id
        /\ Truthy(shopper_id)
        /\ (summary.order # PyNone) <=> Truthy(order_id)
        /\ Truthy(order_id) <=> OrderReturned
        /\ OrderReturned => summary.order = PyStr(response.primary.v)
        /\ ~OrderReturned => summary.order = PyNone

\* a run completed although the purchase was rejected: the summary reports
\* the failure
C22_Witness ==
    /\ pc = "Done"
    /\ outcomes["perform_purchase"] = "http"
    /\ summary = [printed |-> TRUE, shopper |-> shopper_id, order |-> PyNone]
    /\ exit_status = 0

-----------------------------------------------------------------------------
(* Further properties of the interpretation, checked under CartSpec *)

\* the return content is found and, unescaped, is a document: the return
\* node lies below the root and holds the nested document escaped once or
\* twice
NestedDocumentRead(d) ==
    /\ d.shape \in {"ns", "plain", "both"}
    /\ d.esc \in {1, 2}
    /\ d.inner \in {"response", "deep", "msg_root", "no_msg"}

\* the nested document has no MESSAGE element, or one with empty text
NoMessageText(d) == d.inner = "no_msg" \/ d.msg = <<>>

\* C23: every response whose return content, unescaped and parsed again, is
\* a document without a MESSAGE element, or with a MESSAGE element whose text
\* is empty, is classified unparseable.
C23_NoMessageUnparseable ==
    (pc \in {"cart_interpreted", "cart_reinterpreted"}
        /\ NestedDocumentRead(response.env) /\ NoMessageText(response.env)) =>
            cart_class = Classified("unparseable", <<>>)

\* a nested document with an empty MESSAGE element was classified unparseable
C23_Witness ==
    /\ pc = "cart_interpreted"
    /\ response.env = Body("ns", 2, "response", <<>>)
    /\ InterpretInner(html_unescape(ElementText(EnvelopeText(response.env), 3)))
          = Classified("unparseable", <<>>)
    /\ cart_class.outcome = "unparseable"

\* the text of the return node the body description fills (for the shape
\* "both": the namespace-qualified one), as the parser hands it over, its
\* entities decoded once
ReturnContent(d) == html_unescape(EscapeTimes(InnerDoc(d.inner, d.msg), d.esc))

\* what lines 458-470 make of the return content of d
ContentInterpreted(d) == InterpretInner(html_unescape(ReturnContent(d)))

-----------------------------------------------------------------------------
(* The choice of the driver, checked under Spec *)

\* every request sent so far went to an address of the environment label
SentWithin(label) ==
    \A i \in 1..Len(sent) :
       sent[i].stage # "encrypt_card" => Contains(sent[i].url, label)

\* C25: the answer to the environment prompt alone selects the driver.  An
\* empty answer (nothing but whitespace counts as empty: the answer is
\* stripped) selects the automatic driver and the built-in default label;
\* every other answer selects the interactive driver and, stripped, is the
\* label.  Nothing later changes the driver or the label, and the automatic
\* driver sends no request outside the default environment.
C25_EnvironmentPromptSelectsDriver ==
    [][ /\ pc = "main" =>
            /\ prompts' = <<"environment">>
            /\ Strip(answer') = <<>> =>
                  (mode' = "auto" /\ environment' = DEFAULT_ENV_SUBDOMAIN)
            /\ Strip(answer') # <<>> =>
                  (mode' = "manual" /\ <<environment'>> = Strip(answer'))
        /\ pc # "main" => (mode' = mode /\ environment' = environment)
        /\ mode' = "auto" => (environment' = "test" /\ SentWithin("test")')
        /\ mode' \in {"auto", "manual"}
        /\ SentWithin(environment)' ]_vars

\* the automatic driver has completed a purchase after an answer of
\* whitespace only, every request within the default environment
C25_Witness ==
    /\ mode = "auto"
    /\ pc = "Done"
    /\ prompts = <<"environment">>
    /\ answer = <<Space, Space>>
    /\ environment = "test"
    /\ Len(sent) = 7
    /\ SentWithin("test")

-----------------------------------------------------------------------------
(* The billing country, checked under RegistrationSpec: calls of            *)
(* create_payment_profile that differ in the billing country the operator   *)
(* gave and in nothing else.                                                *)

\* what a request carries apart from the uuid4 values of its headers
Payload(request) == [url |-> request.url, auth |-> request.auth, body |-> request.body]

\* C26: the billing country handed to create_payment_profile has no
\* influence on the request: calls that differ in it alone send the same
\* payload, whose billing block is the module's default.
C26_BillingCountryNotSent ==
    \A i \in ProfileRequestsSent :
       /\ sent[i].body[4] = PyStr(DEFAULT_BILLING_CONTACT_INFO.country)
       /\ (card.billing_country # "US" /\ i = Len(sent) /\ Len(prompts) < Len(invoked))
             => \A k \in 1..Len(sent[i].body) : sent[i].body[k] # PyStr(card.billing_country)
       /\ \A j \in ProfileRequestsSent : Payload(sent[i]) = Payload(sent[j])

\* three calls, the second and the third after the operator named another
\* billing country each time, the last of them "DE"
C26_Witness ==
    /\ pc = "registering"
    /\ Len(sent) = 3
    /\ prompts = <<"card", "card">>
    /\ Len(answer) = 4 /\ answer[3] = "DE"
    /\ card.billing_country = "DE"
    /\ Payload(sent[1]) = Payload(sent[3])

-----------------------------------------------------------------------------
(* perf_test_dnai_model.py: measure_dnai_performance submits num_requests   *)
(* calls of post_dnai to a pool of max_workers threads and collects their   *)
(* results in the calling thread, in the order in which they complete.      *)

\* what the request of a worker meets: a response with a status, after ms
\* milliseconds, a requests.exceptions.RequestException, or another exception
Answered(status, ms) == [kind |-> "response", status |-> status, ms |-> ms]
RequestFailed == [kind |-> "RequestException", status |-> 0, ms |-> 0]
OtherFailure == [kind |-> "Exception", status |-> 0, ms |-> 0]
PerfMeets == {Answered(200, 8), Answered(500, 15), RequestFailed, OtherFailure}

\* what a future holds: the tuple post_dnai returned (timed tells a
\* response_time from None), or the exception that left post_dnai
NoResult == [raised |-> FALSE, timed |-> FALSE, response_time |-> 0, success |-> FALSE]

\* lines 14-30
post_dnai(met) ==
    CASE met.kind = "response" ->
            [raised |-> FALSE, timed |-> TRUE, response_time |-> met.ms,
             success |-> (met.status = 200)]
      [] met.kind = "RequestException" ->
            [raised |-> FALSE, timed |-> FALSE, response_time |-> 0, success |-> FALSE]
      [] OTHER ->
            [raised |-> TRUE, timed |-> FALSE, response_time |-> 0, success |-> FALSE]

Future(state, result) == [state |-> state, result |-> result]

\* the futures a worker thread is running
Running(fs) == {i \in 1..Len(fs) : fs[i].state = "running"}
\* the work queue of the pool
Queued(fs) == {i \in 1..Len(fs) : fs[i].state = "pending"}

\* (variant) an as_completed that hands over every finished future, handed
\* over before or not
CompletedOrYielded(fs, y) == {i \in 1..Len(fs) : fs[i].state = "done"}

\* concurrent.futures.as_completed (line 35): the finished futures it has not
\* handed over yet
Completed(fs, y) ==
    {i \in 1..Len(fs) : fs[i].state = "done" /\ \A k \in 1..Len(y) : y[k] # i}

\* measure_dnai_performance is called: lines 7-12
PerfInit ==
    /\ Fresh /\ script = Unscripted /\ UpdateIdle
    /\ num_requests \in 0..MaxRequests
    /\ max_workers \in 1..MaxWorkers
    /\ futures = <<>>
    /\ yielded = <<>>
    /\ response_times = <<>>
    /\ success_count = 0
    /\ error_count = 0
    /\ perf_pc = "submitting"

\* line 33: one more executor.submit
Submit ==
    /\ perf_pc = "submitting"
    /\ Len(futures) < num_requests
    /\ futures' = Append(futures, Future("pending", NoResult))
    /\ UNCHANGED <<num_requests, max_workers, yielded, response_times,
                   success_count, error_count, perf_pc>>
    /\ UNCHANGED <<tool_vars, update_vars>>

\* line 33 is through; line 35 calls as_completed
AllSubmitted ==
    /\ perf_pc = "submitting"
    /\ Len(futures) = num_requests
    /\ perf_pc' = "collecting"
    /\ UNCHANGED <<num_requests, max_workers, futures, yielded, response_times,
                   success_count, error_count>>
    /\ UNCHANGED <<tool_vars, update_vars>>

\* a thread of the pool takes the first call of the work queue
WorkerStart ==
    /\ Queued(futures) # {}
    /\ Cardinality(Running(futures)) < max_workers
    /\ LET i == CHOOSE q \in Queued(futures) : \A r \in Queued(futures) : q <= r
       IN  futures' = [futures EXCEPT ![i].state = "running"]
    /\ UNCHANGED <<num_requests, max_workers, yielded, response_times,
                   success_count, error_count, perf_pc>>
    /\ UNCHANGED <<tool_vars, update_vars>>

\* a worker thread comes to the end of post_dnai
WorkerFinish ==
    /\ \E i \in Running(futures), met \in PerfMeets :
          futures' = [futures EXCEPT ![i] = Future("done", post_dnai(met))]
    /\ UNCHANGED <<num_requests, max_workers, yielded, response_times,
                   success_count, error_count, perf_pc>>
    /\ UNCHANGED <<tool_vars, update_vars>>

\* lines 35-44, one round of the loop: future.result() raises what post_dnai
\* raised, and the exception leaves measure_dnai_performance
Collect ==
    /\ perf_pc = "collecting"
    /\ \E i \in Completed(futures, yielded) :
          LET r == futures[i].result
          IN  /\ yielded' = Append(yielded, i)
              /\ IF r.raised
                 THEN /\ perf_pc' = "raised"
                      /\ UNCHANGED <<response_times, success_count, error_count>>
                 ELSE /\ response_times' =
                            IF r.timed THEN Append(response_times, r.response_time)
                            ELSE response_times
                      /\ success_count' = IF r.success THEN success_count + 1
                                          ELSE success_count
                      /\ error_count' = IF r.success THEN error_count
                                        ELSE error_count + 1
                      /\ perf_pc' = perf_pc
    /\ UNCHANGED <<num_requests, max_workers, futures>>
    /\ UNCHANGED <<tool_vars, update_vars>>

\* as_completed has handed over every future: lines 46-66
PerfReturn ==
    /\ perf_pc = "collecting"
    /\ \A i \in 1..Len(futures) : \E k \in 1..Len(yielded) : yielded[k] = i
    /\ perf_pc' = "returned"
    /\ UNCHANGED <<num_requests, max_workers, futures, yielded, response_times,
                   success_count, error_count>>
    /\ UNCHANGED <<tool_vars, update_vars>>

PerfNext == Submit \/ AllSubmitted \/ WorkerStart \/ WorkerFinish \/ Collect \/ PerfReturn

PerfSpec == PerfInit /\ [][PerfNext]_vars

\* the futures handed over whose result was a tuple
Counted == {k \in 1..Len(yielded) : ~futures[yielded[k]].result.raised}
\* a step of a thread of the pool
WorkerStep == futures' # futures /\ Len(futures') = Len(futures)

\* C27: whatever the order in which the workers start, finish and are
\* collected, every submitted request is counted once.  The counters and the
\* list of response times change only in a round of the collecting loop, by
\* one, for a future not handed over before, and never in a step of a
\* worker; no future is handed over twice; and when
\* measure_dnai_performance returns, success_count + error_count =
\* num_requests (a natural number), success_count is the number of requests
\* answered with status 200, and there are at most num_requests response
\* times.
C27_EachRequestCountedOnce ==
    [][ /\ (success_count' # success_count \/ error_count' # error_count
               \/ response_times' # response_times)
            => /\ perf_pc = "collecting"
               /\ ~WorkerStep
               /\ Len(yielded') = Len(yielded) + 1
               /\ yielded'[Len(yielded')] \in Completed(futures, yielded)
               /\ success_count' + error_count' = success_count + error_count + 1
               /\ Len(response_times') <= Len(response_times) + 1
        /\ WorkerStep => UNCHANGED <<yielded, response_times, success_count,
                                     error_count, perf_pc>>
        /\ \A k, l \in 1..Len(yielded') : yielded'[k] = yielded'[l] => k = l
        /\ success_count' + error_count' = Cardinality(Counted')
        /\ Len(response_times') <= success_count' + error_count'
        /\ perf_pc' = "returned"
            => /\ success_count' + error_count' = num_requests
               /\ Len(response_times') <= num_requests
               /\ success_count' =
                     Cardinality({i \in 1..Len(futures') : futures'[i].result.success})
               /\ \A i \in 1..Len(futures') : futures'[i].state = "done" ]_vars

\* three requests on two workers, collected in another order than they were
\* submitted: one success, one failure by status, one by exception
C27_Witness ==
    /\ perf_pc = "returned"
    /\ num_requests = 3 /\ max_workers = 2
    /\ yielded = <<2, 3, 1>>
    /\ success_count = 1 /\ error_count = 2
    /\ response_times = <<15, 8>>

-----------------------------------------------------------------------------
(* update_max.py: main reads the rows of a CSV file and, row by row, gets   *)
(* the seller configuration of the row's resource, sets or removes its      *)
(* maxTransactionLimitOverride and puts it back.                            *)

\* a row of csv.DictReader: row.get gives None for a column the file has not
Row(resource_id, max_amount) == [resourceId |-> resource_id, maxAmount |-> max_amount]
CsvRows ==
    { Row(PyNone, PyStr("500")), Row(PyStr(""), PyStr("")),
      Row(PyStr("r1"), PyStr("500")), Row(PyStr("r1"), PyStr("")),
      Row(PyStr("r1"), PyStr("abc")), Row(PyStr("r2"), PyStr(" 7 ")),
      Row(PyStr("r2"), PyNone) }

\* the body of the answer to a GET: json is "invalid", "null", "list" or
\* "object"; of an object, data tells whether configurationData is "absent",
\* "null", an object "without" or "with" maxTransactionLimitOverride, and
\* version is the JSON value of the field version
Body_(json, data, version) == [json |-> json, data |-> data, version |-> version]
ConfigObjects ==
    { Body_("object", d, v) : d \in {"absent", "null", "without", "with"},
                              v \in {JAbsent, JStr("v7"), JNum("3")} }
    \cup { Body_("object", "with", JNull) }
GetMet(kind, status, body) == [kind |-> kind, status |-> status, body |-> body]
NoGet == GetMet("none", 0, Body_("invalid", "absent", JAbsent))
GetOutcomes ==
    { GetMet("ConnectionError", 0, Body_("invalid", "absent", JAbsent)),
      GetMet("response", 404, Body_("object", "with", JStr("v7"))),
      GetMet("response", 200, Body_("invalid", "absent", JAbsent)),
      GetMet("response", 200, Body_("null", "absent", JAbsent)),
      GetMet("response", 200, Body_("list", "absent", JAbsent)) }
    \cup { GetMet("response", 200, b) : b \in ConfigObjects }
\* the status of the answer to a PUT; 0: requests.put raised
PutOutcomes == {200, 500, 0}

\* (variant) lines 23-29 without the test of the status
get_config_any_status(g) ==
    IF g.kind # "response" THEN [raised |-> g.kind, none |-> TRUE]
    ELSE IF g.body.json = "invalid" THEN [raised |-> "JSONDecodeError", none |-> TRUE]
    ELSE [raised |-> "", none |-> g.body.json = "null"]

\* lines 23-29: the parsed body of an answer with status 200, else None
get_config(g) ==
    IF g.kind # "response" THEN [raised |-> g.kind, none |-> TRUE]
    ELSE IF g.status # 200 THEN [raised |-> "", none |-> TRUE]
    ELSE IF g.body.json = "invalid" THEN [raised |-> "JSONDecodeError", none |-> TRUE]
    ELSE [raised |-> "", none |-> g.body.json = "null"]

\* int(max_amount) as the PUT carries it
IntText(text) == IF text = " 7 " THEN "7" ELSE text

\* lines 63-82, on the object config and the row's maxAmount: "put" with the
\* override to send, "skip" (continue), or the exception that leaves main
Updated(b, max_amount) ==
    IF b.json # "object" THEN [then |-> "AttributeError", override |-> JAbsent]
    ELSE IF Truthy(max_amount)
    THEN IF max_amount.v \notin IntLiterals THEN [then |-> "skip", override |-> JAbsent]
         ELSE IF b.data = "null" THEN [then |-> "TypeError", override |-> JAbsent]
         ELSE [then |-> "put", override |-> JNum(IntText(max_amount.v))]
    ELSE IF b.data = "null" THEN [then |-> "TypeError", override |-> JAbsent]
         ELSE IF b.data = "with" THEN [then |-> "put", override |-> JAbsent]
         ELSE [then |-> "skip", override |-> JAbsent]

\* lines 84 and 36: str(config.get("version", ""))
ETag(b) == IF b.version.j = "absent" THEN PyStr("") ELSE JsonStr(b.version)

\* a request as the log of calls keeps it: the row it was made for, the
\* resource of its address, the status it met and, of a GET, the whole answer
GetCall(i, resource_id, g) ==
    [verb |-> "GET", row |-> i, resource |-> resource_id, status |-> g.status,
     met |-> g, eTag |-> PyNone, override |-> JAbsent]
PutCall(i, resource_id, version, override, status) ==
    [verb |-> "PUT", row |-> i, resource |-> resource_id, status |-> status,
     met |-> NoGet, eTag |-> version, override |-> override]

\* main is called: line 51
UpdateInit ==
    /\ Fresh /\ script = Unscripted /\ PerfIdle
    /\ rows \in UNION {[1..n -> CsvRows] : n \in 0..MaxRows}
    /\ row_index = 1
    /\ calls = <<>>
    /\ update_pc = "rows"

UpdateCrash == update_pc' = "crashed" /\ row_index' = row_index
NextRow == update_pc' = update_pc /\ row_index' = row_index + 1

\* lines 53-88, one round of the loop
ProcessRow ==
    /\ update_pc = "rows"
    /\ row_index <= Len(rows)
    /\ LET row == rows[row_index]
           resource_id == row.resourceId
       IN  IF ~Truthy(resource_id)
           THEN calls' = calls /\ NextRow
           ELSE \E g \in GetOutcomes, p \in PutOutcomes :
                  LET got == Append(calls, GetCall(row_index, resource_id.v, g))
                      u == Updated(g.body, row.maxAmount)
                  IN  IF get_config(g).raised # ""
                      THEN calls' = got /\ UpdateCrash
                      ELSE IF get_config(g).none \/ u.then = "skip"
                      THEN calls' = got /\ NextRow
                      ELSE IF u.then # "put"
                      THEN calls' = got /\ UpdateCrash
                      ELSE /\ calls' = Append(got, PutCall(row_index, resource_id.v,
                                                       ETag(g.body), u.override, p))
                           /\ IF p = 0 THEN UpdateCrash ELSE NextRow
    /\ UNCHANGED rows
    /\ UNCHANGED <<tool_vars, perf_vars>>

\* the loop is through: main returns
UpdateReturn ==
    /\ update_pc = "rows"
    /\ row_index > Len(rows)
    /\ update_pc' = "done"
    /\ UNCHANGED <<rows, row_index, calls>>
    /\ UNCHANGED <<tool_vars, perf_vars>>

UpdateNext == ProcessRow \/ UpdateReturn

UpdateSpec == UpdateInit /\ [][UpdateNext]_vars

\* the PUT requests made so far
Puts == {k \in 1..Len(calls) : calls[k].verb = "PUT"}
\* the version field of the object a GET was answered with, as a header value
VersionRead(g) ==
    CASE g.met.body.version.j = "absent" -> PyStr("")
      [] g.met.body.version.j = "null" -> PyStr("None")
      [] OTHER -> PyStr(g.met.body.version.v)

\* C28: every PUT follows at once a GET of the same row for the same
\* resource, the resource the row names, that was answered with status 200
\* and a JSON object; its eTag is the version of that object as a string
\* ("" when the object has no version); and the row has a resourceId, a
\* maxAmount that is empty or one int() accepts, and, when its maxAmount is
\* empty, the object holds a maxTransactionLimitOverride.  No row has two
\* PUTs.
C28_PutOnlyAfterGet ==
    \A k \in Puts :
       /\ k > 1
       /\ calls[k - 1].verb = "GET"
       /\ calls[k - 1].row = calls[k].row
       /\ calls[k - 1].resource = calls[k].resource
       /\ calls[k - 1].status = 200
       /\ calls[k - 1].met.body.json = "object"
       /\ calls[k].eTag = VersionRead(calls[k - 1])
       /\ calls[k].row \in 1..Len(rows)
       /\ LET row == rows[calls[k].row]
          IN  /\ row.resourceId = PyStr(calls[k].resource)
              /\ calls[k].resource # ""
              /\ row.maxAmount \in {PyNone, PyStr("")}
                    \/ row.maxAmount.v \in {"500", " 7 "}
              /\ row.maxAmount \in {PyNone, PyStr("")}
                    => calls[k - 1].met.body.data = "with"
       /\ \A l \in Puts : calls[l].row = calls[k].row => l = k

\* two rows, both put: the first sets the override of r1 to 500, the second
\* removes the override of r2, each with the version its GET read
C28_Witness ==
    /\ update_pc = "done"
    /\ Len(rows) = 2
    /\ Len(calls) = 4
    /\ rows[2] = Row(PyStr("r2"), PyNone)
    /\ calls[2].verb = "PUT" /\ calls[2].override = JNum("500")
    /\ calls[2].eTag = PyStr("3")
    /\ calls[3].met.body.version = JStr("v7")
    /\ calls[4].verb = "PUT" /\ calls[4].eTag = PyStr("v7")
    /\ calls[4].override = JAbsent


=============================================================================
